---- MODULE Spec2Model ----
(***************************************************************************)
(* A model of tk-multi-pythonconsole: the execution engine and its stream  *)
(* redirectors (python/app/input_widget.py, python/app/redirect.py), the   *)
(* line-editing commands and their undo wrapper (input_widget.py) and the  *)
(* tab container.                                                          *)
(*                                                                         *)
(* The specifications share the variables; among them:                     *)
(*   SpecExec   executions in the tabs' input widgets, nested through the  *)
(*              event processing done inside a redirector write;           *)
(*   SpecTabs   add_tab / remove_tab on the tab container;                 *)
(*   SpecEdit   indent and unindent on a document with a selection;        *)
(*   SpecSafe   the same commands raising partway, in every host, run      *)
(*              through safe_modify_content;                               *)
(*   SpecNames  texts that define and call a function, in the input        *)
(*              widgets of input_widget.py and of console.py;              *)
(*   SpecOutputFair  threads appending to the output widget;               *)
(*   SpecHighlight   the syntax highlighter's scan of one block.           *)
(***************************************************************************)
EXTENDS Integers, Sequences, FiniteSets, TLC

VARIABLES
    sys_stdout,     \* sys.stdout: the process-wide output handle
    sys_stdin,      \* sys.stdin
    sys_stderr,     \* sys.stderr
    out_handle,     \* tab -> StdoutRedirector._handle of the tab's input widget
    in_handle,      \* tab -> StdinRedirector._handle
    err_handle,     \* tab -> StderrRedirector._handle
    locals,         \* tab -> PythonInputWidget._locals (name -> value)
    echo,           \* tab -> PythonInputWidget._echo
    sink,           \* tab -> the signals emitted by the tab's input widget, in order
    stack,          \* the executions in progress, innermost last
    ret,            \* record of the execution that finished last
    nexec,          \* number of execute() calls made so far
    tabs,           \* the tab container: sequence of tabs, in display order
    current,        \* index of the current tab, from 0 (-1 when there is none)
    next_id,        \* identity given to the next tab created
    tab_ret,        \* record of the last add_tab / remove_tab call
    lines,          \* the editor document: a sequence of lines (blocks)
    cursor,         \* textCursor().position()
    anchor,         \* textCursor().anchor()
    undo_stack,     \* the document's undo steps: the texts to go back to
    sgtk,           \* TRUE when the sgtk module could be imported
    engine,         \* TRUE when sgtk.platform.current_engine() is not None
    last_cmd,       \* record of the last editing command
    nedits,         \* number of editing commands run so far
    app_inited,     \* PythonConsoleApp: init_app has run (_unique_panel_id is set)
    app_panel,      \* PythonConsoleApp._current_panel: a widget, or NoAttr
    app_dialog,     \* PythonConsoleApp._current_dialog: a widget, or NoAttr
    engine_panels,  \* TRUE when the engine has a show_panel method
    engine_panel,   \* the panel widget the engine keeps (0 when none)
    widget_tabs,    \* console widget -> number of tabs of its tab container
    app_ret,        \* record of the last call made to the PythonConsoleApp
    files,          \* path -> the file at that path
    save_ret,       \* record of the last save() call
    widget_class,   \* tab -> the module whose PythonInputWidget the tab holds
    write_lock,     \* OutputStreamWidget._write_lock: 0 free, else the thread holding it
    thread_pc,      \* thread -> where it is in an add_* call of the output widget
    pending,        \* thread -> the text its add_* call is appending
    document,       \* the fragments in the output widget's document
    out_cursor,     \* the output widget's text cursor
    nappends,       \* add_* calls made so far
    out_ret,        \* record of the last add_* call that came back
    hl_text,        \* the text of the block the syntax highlighter is given
    hl_prev,        \* previousBlockState()
    hl_state,       \* currentBlockState()
    hl_pc,          \* where highlightBlock is
    hl_delim,       \* in_state of the delimiter match_multiline is scanning for
    hl_start,       \* match_multiline: start
    hl_add,         \* match_multiline: add
    hl_match,       \* match_multiline: match
    hl_offset       \* match_multiline: offset

exec_vars == <<sys_stdout, sys_stdin, sys_stderr, out_handle, in_handle,
               err_handle, locals, echo, sink, stack, ret, nexec>>
app_vars  == <<app_inited, app_panel, app_dialog, engine_panels, engine_panel,
               widget_tabs, app_ret>>
save_vars == <<files, save_ret>>
hl_vars == <<hl_text, hl_prev, hl_state, hl_pc, hl_delim, hl_start, hl_add, hl_match,
             hl_offset>>
out_vars == <<write_lock, thread_pc, pending, document, out_cursor, nappends, out_ret>>
tab_vars  == <<tabs, current, next_id, tab_ret, app_vars, widget_class, out_vars>>
edit_vars == <<lines, cursor, anchor, undo_stack, sgtk, engine, last_cmd, nedits,
               save_vars, hl_vars>>
vars == <<exec_vars, tab_vars, edit_vars>>

(***************************************************************************)
(* Bounds                                                                  *)
(***************************************************************************)
MaxDepth == 2           \* executions nested inside one another
MaxExecs == 2           \* execute() calls in one behaviour

\* the tabs that take part in executions
ExecTabs == {1, 2}

\* nested redirector writes the interpreter allows before RecursionError:
\* more than any chain of distinct redirectors, fewer than an endless one
RecursionLimit == MaxDepth + 1

(***************************************************************************)
(* Stream handles.  A handle is the original stream of the process, a      *)
(* tab's redirector (named by the tab's number), or None.                  *)
(***************************************************************************)
NoneH == -1
OrigH == 0
Handles == {NoneH, OrigH} \cup ExecTabs

(***************************************************************************)
(* Python values held in a symbol table, and str() of them.                *)
(***************************************************************************)
Unbound == -1
NoneVal == -2
Names == {"a", "i", "f"}
\* the function object a "def f" statement binds to the name f
FunctionF == 9

Str(v) ==
    CASE v = NoneVal -> "None"
      [] v = 0 -> "0"
      [] v = 1 -> "1"
      [] v = 2 -> "2"
      [] OTHER -> "?"

(***************************************************************************)
(* The user texts.  Each is python source; compile() and the interpreter   *)
(* are modelled by what they do with these texts.                          *)
(***************************************************************************)
Scripts == {"a = 1", "a", "1 + 1", "def f(:", "for i in range(1): pass",
            "sys.stdout.write(str(1))", "a = 2; b"}

\* texts that define a function at top level and call it; the body of f
\* reads the top-level name a
NameScripts == {"a = 1\ndef f(): return a", "f()",
                "a = 2\ndef f(): return a\nf()", "a"}

\* compile(text, ..., "eval") succeeds
CompilesAsExpression(s) == s \in {"a", "1 + 1", "sys.stdout.write(str(1))", "f()"}

\* compile(text, ..., "exec") succeeds
CompilesAsStatements(s) == s \in (Scripts \cup NameScripts) \ {"def f(:"}

\* what the interpreter does when it evaluates the compiled text
Code(s) ==
    CASE s = "a = 1" -> << [op |-> "bind", name |-> "a", val |-> 1] >>
      [] s = "a" -> << [op |-> "read", name |-> "a", val |-> 0] >>
      [] s = "1 + 1" -> << [op |-> "const", name |-> "", val |-> 1 + 1] >>
      [] s = "for i in range(1): pass" -> << [op |-> "bind", name |-> "i", val |-> 0] >>
      [] s = "sys.stdout.write(str(1))" ->
            << [op |-> "write", name |-> "", val |-> 1] >>
      [] s = "a = 2; b" ->
            << [op |-> "bind", name |-> "a", val |-> 2],
               [op |-> "read", name |-> "b", val |-> 0] >>
      [] s = "a = 1\ndef f(): return a" ->
            << [op |-> "bind", name |-> "a", val |-> 1],
               [op |-> "bind", name |-> "f", val |-> FunctionF] >>
      [] s = "f()" -> << [op |-> "call", name |-> "f", val |-> 0] >>
      [] s = "a = 2\ndef f(): return a\nf()" ->
            << [op |-> "bind", name |-> "a", val |-> 2],
               [op |-> "bind", name |-> "f", val |-> FunctionF],
               [op |-> "call", name |-> "f", val |-> 0] >>
      [] OTHER -> << >>

\* the value of a name in a symbol table; "b" is bound by no text
Lookup(loc, name) == IF name \in Names THEN loc[name] ELSE Unbound

\* a top-level name is looked up in the local namespace, then in the global
\* one
LookupName(glob, loc, name) ==
    IF Lookup(loc, name) # Unbound THEN Lookup(loc, name) ELSE Lookup(glob, name)

\* the call f(): f is a top-level name; its body "return a" reads a in the
\* globals of the function, which are the globals the defining exec was
\* given.  Unbound: the call raises NameError
CallResult(glob, loc, name) ==
    IF LookupName(glob, loc, name) = Unbound THEN Unbound ELSE Lookup(glob, "a")

\* PythonInputWidget._format_exc
FormatExc(exc) == "Traceback (most recent call last): " \o exc

\* the first compile that succeeds: expression, then statements
CompileKindSwapped(s) ==
    IF CompilesAsStatements(s) THEN "exec"
    ELSE IF CompilesAsExpression(s) THEN "eval"
    ELSE "none"

CompileKind(s) ==
    IF CompilesAsExpression(s) THEN "eval"
    ELSE IF CompilesAsStatements(s) THEN "exec"
    ELSE "none"

(***************************************************************************)
(* The redirectors (redirect.py).                                          *)
(***************************************************************************)
\* every redirector of an input widget is built with the default tee=True
Tee == TRUE

\* the signal a tab's input widget emits, recorded with the tab whose
\* executing code caused it
Event(type, text, by) == [type |-> type, text |-> text, by |-> by]

Emit(snk, t, ev) == [snk EXCEPT ![t] = Append(@, ev)]

\* StdoutRedirector.write, first half: emit the output signal
StdoutWriteEvent(msg, by) == Event("output", msg, by)

\* StderrRedirector.write, first half: emit the error signal
StderrWriteEventAsOutput(msg, by) == Event("output", msg, by)

StderrWriteEvent(msg, by) == Event("error", msg, by)

\* StdoutRedirector.write, second half: the handle the text is teed to
\* (NoneH: nothing more is written)
StdoutTeeTarget(r) == IF Tee /\ out_handle[r] # NoneH THEN out_handle[r] ELSE NoneH

\* StdoutRedirector.__exit__: the handle sys.stdout is set back to
StdoutExitKeepsRedirector(t) == sys_stdout

StdoutExit(t) == out_handle[t]

\* StdinRedirector.__exit__: the handle sys.stdin is set back to
StdinExit(t) == in_handle[t]

(***************************************************************************)
(* The execution engine (PythonInputWidget.execute).                       *)
(***************************************************************************)
FreshLocals == [n \in Names |-> Unbound]

\* exec/eval get self._locals itself as globals and locals: a binding made
\* by the code is a binding in the tab's symbol table
StoreLocalsInCopy(loc, t, name, val) == loc

StoreLocalsShared(loc, t, name, val) == [u \in ExecTabs |-> [loc[u] EXCEPT ![name] = val]]

StoreLocals(loc, t, name, val) == [loc EXCEPT ![t][name] = val]

Handles3 == <<sys_stdout, sys_stderr, sys_stdin>>

NoRet == [tab |-> 0, script |-> "", kind |-> "none", outcome |-> "none",
          locals0 |-> FreshLocals, locals1 |-> FreshLocals,
          h0 |-> <<OrigH, OrigH, OrigH>>, h1 |-> <<OrigH, OrigH, OrigH>>,
          events |-> << >>, nested |-> FALSE, failed |-> FALSE, ops |-> 0]

Top == stack[Len(stack)]

\* the event loop can deliver an event: at top level, or inside the
\* processEvents() call of a redirector write
CanDispatch == IF stack = << >> THEN TRUE ELSE Top.pc \in {"pe_out", "pe_err"}

\* every execution in progress now has another one nested in it
MarkNested(stk) == [k \in 1..Len(stk) |-> [stk[k] EXCEPT !.nested = TRUE]]

SetTop(f) == stack' = [stack EXCEPT ![Len(stack)] = f]

Pop == SubSeq(stack, 1, Len(stack) - 1)

NewFrame(t, script, kind, pc, events) ==
    [tab |-> t, script |-> script, kind |-> kind, pc |-> pc, ip |-> 1,
     val |-> NoneVal, writer |-> 0, depth |-> 0, msg |-> "",
     locals0 |-> locals[t], h0 |-> Handles3, events |-> events,
     nested |-> FALSE, failed |-> (kind = "none"), ops |-> 0]

RetOf(f, outcome, h1, events) ==
    [tab |-> f.tab, script |-> f.script, kind |-> f.kind, outcome |-> outcome,
     locals0 |-> f.locals0, locals1 |-> locals[f.tab], h0 |-> f.h0, h1 |-> h1,
     events |-> events, nested |-> f.nested, failed |-> f.failed,
     ops |-> f.ops]

\* execute(): "if self._echo: self.input.emit(python_script)"
EchoEventsAlways(echoing, script, t) == << Event("input", script, t) >>

EchoEvents(echoing, script, t) ==
    IF echoing THEN << Event("input", script, t) >> ELSE << >>

\* execute(): echo, compile, and either report the syntax error or enter
\* the redirected scope
Execute(t, script) ==
    /\ widget_class[t] = "input_widget"
    /\ CanDispatch
    /\ Len(stack) < MaxDepth
    /\ nexec < MaxExecs
    /\ nexec' = nexec + 1
    /\ LET kind == CompileKind(script)
           inp == EchoEvents(echo[t], script, t)
           err == StderrWriteEvent(FormatExc("SyntaxError"), t)
       IN  IF script = ""
           THEN /\ ret' = [NoRet EXCEPT !.tab = t, !.outcome = "returned",
                                        !.locals0 = locals[t], !.locals1 = locals[t],
                                        !.h0 = Handles3, !.h1 = Handles3]
                /\ UNCHANGED <<sys_stdout, sys_stdin, out_handle, in_handle, sink, stack>>
           ELSE IF kind = "none"
           THEN /\ sink' = [sink EXCEPT ![t] = @ \o inp \o << err >>]
                /\ stack' = Append(MarkNested(stack),
                                   NewFrame(t, script, kind, "pe_err", inp \o << err >>))
                /\ UNCHANGED <<sys_stdout, sys_stdin, out_handle, in_handle, ret>>
           ELSE /\ sink' = [sink EXCEPT ![t] = @ \o inp]
                /\ out_handle' = [out_handle EXCEPT ![t] = sys_stdout]
                /\ sys_stdout' = t
                /\ in_handle' = [in_handle EXCEPT ![t] = sys_stdin]
                /\ sys_stdin' = t
                /\ stack' = Append(MarkNested(stack),
                                   NewFrame(t, script, kind, "run", inp))
                /\ UNCHANGED ret
    /\ UNCHANGED <<sys_stderr, err_handle, locals, echo>>
    /\ UNCHANGED <<tab_vars, edit_vars>>

Running == IF stack = << >> THEN FALSE ELSE Top.pc = "run"

NextOp == Code(Top.script)[Top.ip]

\* an exception raised by the evaluated code reaches "except Exception":
\* the traceback is written to the tab's stderr redirector
RaiseInUser(exc) ==
    LET err == StderrWriteEvent(FormatExc(exc), Top.tab)
    IN  /\ sink' = Emit(sink, Top.tab, err)
        /\ SetTop([Top EXCEPT !.pc = "pe_err", !.failed = TRUE, !.ops = @ + 1,
                              !.events = Append(@, err)])

\* the evaluated code binds a name
Bind ==
    /\ Running /\ Top.ip <= Len(Code(Top.script)) /\ NextOp.op = "bind"
    /\ locals' = StoreLocals(locals, Top.tab, NextOp.name, NextOp.val)
    /\ SetTop([Top EXCEPT !.ip = @ + 1, !.ops = @ + 1])
    /\ UNCHANGED <<sys_stdout, sys_stdin, sys_stderr, out_handle, in_handle,
                   err_handle, echo, sink, ret, nexec>>
    /\ UNCHANGED <<tab_vars, edit_vars>>

\* the evaluated code reads a name: NameError when it is not bound
Read ==
    /\ Running /\ Top.ip <= Len(Code(Top.script)) /\ NextOp.op \in {"read", "const"}
    /\ LET v == IF NextOp.op = "const" THEN NextOp.val
                ELSE Lookup(locals[Top.tab], NextOp.name)
       IN  IF v = Unbound
           THEN RaiseInUser("NameError")
           ELSE /\ SetTop([Top EXCEPT !.ip = @ + 1, !.val = v, !.ops = @ + 1])
                /\ UNCHANGED sink
    /\ UNCHANGED <<sys_stdout, sys_stdin, sys_stderr, out_handle, in_handle,
                   err_handle, locals, echo, ret, nexec>>
    /\ UNCHANGED <<tab_vars, edit_vars>>

\* the evaluated code calls f(): eval/exec were given self._locals as the
\* globals and as the locals
Call ==
    /\ Running /\ Top.ip <= Len(Code(Top.script)) /\ NextOp.op = "call"
    /\ \E v \in {CallResult(locals[Top.tab], locals[Top.tab], NextOp.name)} :
           IF v = Unbound
           THEN RaiseInUser("NameError")
           ELSE /\ SetTop([Top EXCEPT !.ip = @ + 1, !.val = v, !.ops = @ + 1])
                /\ UNCHANGED sink
    /\ UNCHANGED <<sys_stdout, sys_stdin, sys_stderr, out_handle, in_handle,
                   err_handle, locals, echo, ret, nexec>>
    /\ UNCHANGED <<tab_vars, edit_vars>>

\* the evaluated code calls sys.stdout.write(msg): the write of whatever
\* sys.stdout is now
Write ==
    /\ Running /\ Top.ip <= Len(Code(Top.script)) /\ NextOp.op = "write"
    /\ LET msg == Str(NextOp.val)
       IN  IF sys_stdout \in ExecTabs
           THEN LET ev == StdoutWriteEvent(msg, Top.tab)
                IN  /\ sink' = Emit(sink, sys_stdout, ev)
                    /\ SetTop([Top EXCEPT !.pc = "pe_out", !.writer = sys_stdout,
                                          !.depth = 1, !.msg = msg, !.ops = @ + 1,
                                          !.events = IF sys_stdout = Top.tab
                                                     THEN Append(@, ev) ELSE @])
           ELSE IF sys_stdout = OrigH
           THEN /\ SetTop([Top EXCEPT !.ip = @ + 1, !.val = NoneVal, !.ops = @ + 1])
                /\ UNCHANGED sink
           ELSE RaiseInUser("AttributeError")
    /\ UNCHANGED <<sys_stdout, sys_stdin, sys_stderr, out_handle, in_handle,
                   err_handle, locals, echo, ret, nexec>>
    /\ UNCHANGED <<tab_vars, edit_vars>>

\* StdoutRedirector.write after processEvents(): tee to the saved handle
ContinueWrite ==
    /\ stack # << >> /\ Top.pc = "pe_out"
    /\ LET h == StdoutTeeTarget(Top.writer)
       IN  IF h \in ExecTabs
           THEN IF Top.depth + 1 > RecursionLimit
                THEN RaiseInUser("RecursionError")
                ELSE LET ev == StdoutWriteEvent(Top.msg, Top.tab)
                     IN  /\ sink' = Emit(sink, h, ev)
                         /\ SetTop([Top EXCEPT !.writer = h, !.depth = @ + 1,
                                               !.events = IF h = Top.tab
                                                          THEN Append(@, ev) ELSE @])
           ELSE /\ SetTop([Top EXCEPT !.pc = "run", !.ip = @ + 1, !.val = NoneVal])
                /\ UNCHANGED sink
    /\ UNCHANGED <<sys_stdout, sys_stdin, sys_stderr, out_handle, in_handle,
                   err_handle, locals, echo, ret, nexec>>
    /\ UNCHANGED <<tab_vars, edit_vars>>

\* the code ran to its end: emit the result of an expression and leave the
\* redirected scope
Finish ==
    /\ Running /\ Top.ip > Len(Code(Top.script))
    /\ LET res == IF Top.kind = "eval"
                  THEN << Event("result", Str(Top.val), Top.tab) >> ELSE << >>
       IN  /\ sink' = [sink EXCEPT ![Top.tab] = @ \o res]
           /\ sys_stdin' = StdinExit(Top.tab)
           /\ sys_stdout' = StdoutExit(Top.tab)
           /\ ret' = RetOf(Top, "returned",
                           <<StdoutExit(Top.tab), sys_stderr, StdinExit(Top.tab)>>,
                           Top.events \o res)
           /\ stack' = Pop
    /\ UNCHANGED <<sys_stderr, out_handle, in_handle, err_handle, locals, echo, nexec>>
    /\ UNCHANGED <<tab_vars, edit_vars>>

\* StderrRedirector.write after processEvents(): tee to the saved handle,
\* which is None for a redirector that was never entered
ContinueError ==
    /\ stack # << >> /\ Top.pc = "pe_err"
    /\ LET t == Top.tab
           raises == Tee /\ err_handle[t] = NoneH
           entered == Top.kind # "none"
           o1 == IF entered THEN StdoutExit(t) ELSE sys_stdout
           i1 == IF entered THEN StdinExit(t) ELSE sys_stdin
       IN  /\ sys_stdout' = o1
           /\ sys_stdin' = i1
           /\ ret' = RetOf(Top, IF raises THEN "raised" ELSE "returned",
                           <<o1, sys_stderr, i1>>, Top.events)
           /\ stack' = Pop
    /\ UNCHANGED <<sys_stderr, out_handle, in_handle, err_handle, locals, echo,
                   sink, nexec>>
    /\ UNCHANGED <<tab_vars, edit_vars>>

\* toggle_echo
ToggleEcho(t) ==
    /\ CanDispatch
    /\ echo' = [echo EXCEPT ![t] = ~@]
    /\ UNCHANGED <<sys_stdout, sys_stdin, sys_stderr, out_handle, in_handle,
                   err_handle, locals, sink, stack, ret, nexec>>
    /\ UNCHANGED <<tab_vars, edit_vars>>

(***************************************************************************)
(* The execution engine of console.py (its own PythonInputWidget.execute). *)
(* Its redirectors never call processEvents(), so one execution is one     *)
(* step.                                                                   *)
(***************************************************************************)
\* globals() of the console module: it binds none of the user's names
ConsoleGlobals == FreshLocals

\* one operation of the evaluated code under
\* eval/exec(python_code, globals(), self._locals)
ConsoleStep(st, o) ==
    IF st.failed THEN st
    ELSE IF o.op = "bind"
    THEN [st EXCEPT !.loc = [@ EXCEPT ![o.name] = o.val], !.ops = @ + 1]
    ELSE IF o.op = "const"
    THEN [st EXCEPT !.val = o.val, !.ops = @ + 1]
    ELSE IF o.op = "read"
    THEN [st EXCEPT !.val = LookupName(ConsoleGlobals, st.loc, o.name),
                    !.failed = (LookupName(ConsoleGlobals, st.loc, o.name) = Unbound),
                    !.ops = @ + 1]
    ELSE IF o.op = "call"
    THEN [st EXCEPT !.val = CallResult(ConsoleGlobals, st.loc, o.name),
                    !.failed = (CallResult(ConsoleGlobals, st.loc, o.name) = Unbound),
                    !.ops = @ + 1]
    ELSE st

RECURSIVE ConsoleRun(_, _, _)
\* the evaluated code after its first k operations
ConsoleRun(code, loc0, k) ==
    IF k = 0
    THEN [loc |-> loc0, val |-> NoneVal, failed |-> FALSE, ops |-> 0]
    ELSE ConsoleStep(ConsoleRun(code, loc0, k - 1), code[k])

\* the signals of one execution, after the echo
ConsoleEvents(t, kind, r) ==
    IF kind = "none"
    THEN << StderrWriteEvent(FormatExc("SyntaxError"), t) >>
    ELSE IF r.failed
    THEN << StderrWriteEvent(FormatExc("NameError"), t) >>
    ELSE IF kind = "eval"
    THEN << Event("result", Str(r.val), t) >>
    ELSE << >>

\* execute() of console.py: echo, compile, evaluate inside the stdout and
\* stdin redirectors, report an error inside the stderr redirector
console_execute(t, script) ==
    /\ widget_class[t] = "console"
    /\ CanDispatch
    /\ nexec < MaxExecs
    /\ nexec' = nexec + 1
    /\ \E kind \in {CompileKind(script)} :
       \E r \in {IF kind = "none" THEN ConsoleRun(<< >>, locals[t], 0)
                  ELSE ConsoleRun(Code(script), locals[t], Len(Code(script)))} :
       \E evs \in {EchoEvents(echo[t], script, t) \o ConsoleEvents(t, kind, r)} :
           /\ sink' = [sink EXCEPT ![t] = @ \o evs]
           /\ locals' = [locals EXCEPT ![t] = r.loc]
           /\ out_handle' = IF kind = "none" THEN out_handle
                            ELSE [out_handle EXCEPT ![t] = sys_stdout]
           /\ in_handle' = IF kind = "none" THEN in_handle
                           ELSE [in_handle EXCEPT ![t] = sys_stdin]
           /\ err_handle' = IF kind = "none" \/ r.failed
                            THEN [err_handle EXCEPT ![t] = sys_stderr]
                            ELSE err_handle
           /\ ret' = [tab |-> t, script |-> script, kind |-> kind,
                      outcome |-> "returned", locals0 |-> locals[t],
                      locals1 |-> r.loc, h0 |-> Handles3, h1 |-> Handles3,
                      events |-> evs, nested |-> FALSE,
                      failed |-> (kind = "none" \/ r.failed), ops |-> r.ops]
    /\ UNCHANGED <<sys_stdout, sys_stdin, sys_stderr, echo, stack>>
    /\ UNCHANGED <<tab_vars, edit_vars>>

\* texts that bind names, define f and call it, run in tabs of both
\* implementations
NextNames ==
    \/ \E t \in ExecTabs, script \in NameScripts \cup {"def f(:"} : Execute(t, script)
    \/ \E t \in ExecTabs, script \in NameScripts \cup {"def f(:"} :
           console_execute(t, script)
    \/ Bind
    \/ Read
    \/ Call
    \/ Finish
    \/ ContinueError

NextExec ==
    \/ \E t \in ExecTabs, script \in Scripts \cup {""} : Execute(t, script)
    \/ Bind
    \/ Read
    \/ Write
    \/ ContinueWrite
    \/ Finish
    \/ ContinueError
    \/ \E t \in ExecTabs : ToggleEcho(t)

(***************************************************************************)
(* The output widget (output_widget.py): add_input, add_results,           *)
(* add_output and add_error, called from any thread.                       *)
(***************************************************************************)
MaxAppends == 2         \* add_* calls in one behaviour

\* the GUI thread and a thread started by user code
Threads == {1, 2}

AppendOps == {"input", "results", "output", "error"}

NoText == << >>
NoOutRet == [thread |-> 0, op |-> "none", raised |-> FALSE]

\* the color _to_html gives the text of an append
ColorOf(op) ==
    CASE op \in {"input", "results"} -> "input"
      [] op = "error" -> "error"
      [] OTHER -> "default"

\* the text of the k-th append, by thread t: insertHtml is not atomic for
\* another thread, the text enters the document fragment by fragment
TextOf(t, k, op) ==
    << [by |-> t, n |-> k, part |-> 1, color |-> ColorOf(op), op |-> op],
       [by |-> t, n |-> k, part |-> 2, color |-> ColorOf(op), op |-> op] >>

\* the points of the locked section, in order
Section == {"html", "move", "insert", "scroll"}

InsertAt(doc, pos, x) == SubSeq(doc, 1, pos) \o << x >> \o SubSeq(doc, pos + 1, Len(doc))

\* Lock.acquire() of "with self._write_lock:" returns
LockFreeAlways(l) == TRUE

LockFree(l) == l = 0

\* an add_* call has formatted its text and reaches "with self._write_lock:"
StartAppend(t, op) ==
    /\ thread_pc[t] = "idle"
    /\ nappends < MaxAppends
    /\ nappends' = nappends + 1
    /\ pending' = [pending EXCEPT ![t] = TextOf(t, nappends + 1, op)]
    /\ thread_pc' = [thread_pc EXCEPT ![t] = "waiting"]
    /\ UNCHANGED <<write_lock, document, out_cursor, out_ret>>
    /\ UNCHANGED <<exec_vars, edit_vars, tabs, current, next_id, tab_ret, app_vars,
                   widget_class>>

add_input(t) == StartAppend(t, "input")

add_results(t) == StartAppend(t, "results")

add_output(t) == StartAppend(t, "output")

add_error(t) == StartAppend(t, "error")

\* "with self._write_lock:" is entered
Acquire(t) ==
    /\ thread_pc[t] = "waiting"
    /\ LockFree(write_lock)
    /\ write_lock' = t
    /\ thread_pc' = [thread_pc EXCEPT ![t] = "html"]
    /\ UNCHANGED <<pending, document, out_cursor, nappends, out_ret>>
    /\ UNCHANGED <<exec_vars, edit_vars, tabs, current, next_id, tab_ret, app_vars,
                   widget_class>>

\* text = self._to_html(text, color)
ToHtml(t) ==
    /\ thread_pc[t] = "html"
    /\ thread_pc' = [thread_pc EXCEPT ![t] = "move"]
    /\ UNCHANGED <<write_lock, pending, document, out_cursor, nappends, out_ret>>
    /\ UNCHANGED <<exec_vars, edit_vars, tabs, current, next_id, tab_ret, app_vars,
                   widget_class>>

\* self.moveCursor(QtGui.QTextCursor.End)
MoveCursorEnd(t) ==
    /\ thread_pc[t] = "move"
    /\ out_cursor' = Len(document)
    /\ thread_pc' = [thread_pc EXCEPT ![t] = "insert"]
    /\ UNCHANGED <<write_lock, pending, document, nappends, out_ret>>
    /\ UNCHANGED <<exec_vars, edit_vars, tabs, current, next_id, tab_ret, app_vars,
                   widget_class>>

\* self.insertHtml(text): the next fragment goes in at the cursor
InsertHtml(t) ==
    /\ thread_pc[t] = "insert"
    /\ document' = InsertAt(document, out_cursor, Head(pending[t]))
    /\ out_cursor' = out_cursor + 1
    /\ pending' = [pending EXCEPT ![t] = Tail(@)]
    /\ thread_pc' = [thread_pc EXCEPT ![t] = IF Tail(pending[t]) = << >>
                                             THEN "scroll" ELSE "insert"]
    /\ UNCHANGED <<write_lock, nappends, out_ret>>
    /\ UNCHANGED <<exec_vars, edit_vars, tabs, current, next_id, tab_ret, app_vars,
                   widget_class>>

\* the lock after __exit__ of "with self._write_lock:"
Released(l) == 0

\* self._scroll_to_bottom(), and the with statement is left
ScrollToBottom(t) ==
    /\ thread_pc[t] = "scroll"
    /\ write_lock' = Released(write_lock)
    /\ thread_pc' = [thread_pc EXCEPT ![t] = "idle"]
    /\ out_ret' = [thread |-> t, op |-> "append", raised |-> FALSE]
    /\ UNCHANGED <<pending, document, out_cursor, nappends>>
    /\ UNCHANGED <<exec_vars, edit_vars, tabs, current, next_id, tab_ret, app_vars,
                   widget_class>>

\* a call inside the with statement raises (the widget is being deleted, a
\* text cannot be encoded): the with statement is left by the exception
RaiseInSection(t) ==
    /\ thread_pc[t] \in Section
    /\ write_lock' = Released(write_lock)
    /\ thread_pc' = [thread_pc EXCEPT ![t] = "idle"]
    /\ pending' = [pending EXCEPT ![t] = NoText]
    /\ out_ret' = [thread |-> t, op |-> "append", raised |-> TRUE]
    /\ UNCHANGED <<document, out_cursor, nappends>>
    /\ UNCHANGED <<exec_vars, edit_vars, tabs, current, next_id, tab_ret, app_vars,
                   widget_class>>

\* what a thread inside an add_* call does next
ThreadStep(t) ==
    \/ Acquire(t)
    \/ ToHtml(t)
    \/ MoveCursorEnd(t)
    \/ InsertHtml(t)
    \/ ScrollToBottom(t)

NextOutput ==
    \/ \E t \in Threads : add_input(t)
    \/ \E t \in Threads : add_results(t)
    \/ \E t \in Threads : add_output(t)
    \/ \E t \in Threads : add_error(t)
    \/ \E t \in Threads : ThreadStep(t)
    \/ \E t \in Threads : RaiseInSection(t)

(***************************************************************************)
(* The syntax highlighter (syntax_highlighter.py): highlightBlock and its  *)
(* scan for multi-line strings.  The formats set on the text are not       *)
(* modelled.                                                               *)
(***************************************************************************)
MaxText == 5            \* characters in one block of text

Chars == {"'", "\"", "x"}

RECURSIVE TextsOfLen(_)
TextsOfLen(n) ==
    IF n = 0 THEN {<< >>}
    ELSE {Append(t, c) : t \in TextsOfLen(n - 1), c \in Chars}

Texts == UNION {TextsOfLen(n) : n \in 0..MaxText}

\* the block states Qt can hand over: none yet, or one set by an earlier
\* highlightBlock
BlockStates == {-1, 0, 1, 2}

\* self.tri_single and self.tri_double: the in_state and the quote character
\* of the delimiter
TriSingle == 1
TriDouble == 2
QuoteOf(in_state) == IF in_state = TriSingle THEN "'" ELSE "\""

\* a QRegularExpressionMatch without a match: capturedStart() and
\* capturedEnd() are -1, capturedLength() is 0
NoMatch == [start |-> -1, end |-> -1, length |-> 0]

\* "match = None"
NoneMatch == [start |-> -2, end |-> -2, length |-> 0]

\* the three quote characters stand at index i (from 0) of the text
MatchesAt(text, q, i) ==
    /\ i + 3 <= Len(text)
    /\ \A k \in 1..3 : text[i + k] = q

FirstMatch(text, q) ==
    CHOOSE i \in 0..Len(text) :
        /\ MatchesAt(text, q, i)
        /\ \A j \in 0..(i - 1) : ~MatchesAt(text, q, j)

\* delimiter.match(text): the first occurrence of the delimiter
DelimiterMatch(text, q) ==
    IF \E i \in 0..Len(text) : MatchesAt(text, q, i)
    THEN [start |-> FirstMatch(text, q), end |-> FirstMatch(text, q) + 3, length |-> 3]
    ELSE NoMatch

\* text[offset:]; a negative offset counts from the end of the text
SliceFrom(text, offset) ==
    IF offset >= 0
    THEN SubSeq(text, offset + 1, Len(text))
    ELSE IF Len(text) + offset >= 0
    THEN SubSeq(text, Len(text) + offset + 1, Len(text))
    ELSE text

\* match_multiline up to its while loop
EnterMatchMultiline(in_state) ==
    /\ hl_delim' = in_state
    /\ hl_offset' = 0
    /\ IF hl_prev = in_state
       THEN hl_start' = 0 /\ hl_add' = 0 /\ hl_match' = NoneMatch
       ELSE \E m \in {DelimiterMatch(hl_text, QuoteOf(in_state))} :
                hl_start' = m.start /\ hl_add' = m.length /\ hl_match' = m

\* highlightBlock: the rules are applied, the block state is set to 0 and
\* the scan for the triple single quote begins
highlightBlock ==
    /\ hl_pc = "idle"
    /\ hl_state' = 0
    /\ EnterMatchMultiline(TriSingle)
    /\ hl_pc' = "loop"
    /\ UNCHANGED <<hl_text, hl_prev>>
    /\ UNCHANGED <<exec_vars, tab_vars, lines, cursor, anchor, undo_stack, sgtk, engine,
                   last_cmd, nedits, save_vars>>

\* the block state after "if end >= add"
StateAfter(end, add, in_state) == IF end >= add THEN 0 ELSE in_state

\* the search for the ending delimiter, from the given offset
EndSearch(offset, m) ==
    /\ hl_offset' = offset
    /\ hl_match' = m
    /\ hl_state' = StateAfter(m.start, hl_add, hl_delim)

\* one pass of "while start >= 0", up to setFormat: look for the ending
\* delimiter and set the block state
match_multiline_loop ==
    /\ hl_pc = "loop" /\ hl_start >= 0
    /\ IF hl_match = NoneMatch
       THEN EndSearch(0, DelimiterMatch(hl_text, QuoteOf(hl_delim)))
       ELSE EndSearch(hl_match.end,
                      DelimiterMatch(SliceFrom(hl_text, hl_match.end), QuoteOf(hl_delim)))
    /\ hl_pc' = "next"
    /\ UNCHANGED <<hl_text, hl_prev, hl_delim, hl_add, hl_start>>
    /\ UNCHANGED <<exec_vars, tab_vars, lines, cursor, anchor, undo_stack, sgtk, engine,
                   last_cmd, nedits, save_vars>>

\* the rest of the pass: "offset += match.capturedEnd()" and the search for
\* the next match
match_multiline_next ==
    /\ hl_pc = "next"
    /\ hl_offset' = hl_offset + hl_match.end
    /\ \E m2 \in {DelimiterMatch(SliceFrom(hl_text, hl_offset + hl_match.end),
                                QuoteOf(hl_delim))} :
           hl_match' = m2 /\ hl_start' = m2.start
    /\ hl_pc' = "loop"
    /\ UNCHANGED <<hl_text, hl_prev, hl_state, hl_delim, hl_add>>
    /\ UNCHANGED <<exec_vars, tab_vars, lines, cursor, anchor, undo_stack, sgtk, engine,
                   last_cmd, nedits, save_vars>>

\* match_multiline returns; for the triple single quote outside a
\* multi-line string the scan for the triple double quote follows
match_multiline_return ==
    /\ hl_pc = "loop" /\ hl_start < 0
    /\ IF hl_delim = TriSingle /\ hl_state # TriSingle
       THEN /\ EnterMatchMultiline(TriDouble)
            /\ UNCHANGED hl_pc
       ELSE /\ hl_pc' = "done"
            /\ UNCHANGED <<hl_delim, hl_start, hl_add, hl_match, hl_offset>>
    /\ UNCHANGED <<hl_text, hl_prev, hl_state>>
    /\ UNCHANGED <<exec_vars, tab_vars, lines, cursor, anchor, undo_stack, sgtk, engine,
                   last_cmd, nedits, save_vars>>

NextHighlight ==
    \/ highlightBlock
    \/ match_multiline_loop
    \/ match_multiline_next
    \/ match_multiline_return

(***************************************************************************)
(* The tab container.                                                      *)
(***************************************************************************)
MaxTabs == 3            \* tabs open at one time
MaxTabIds == 5          \* tabs created in one behaviour

TabNames == {"Python", "notes"}
TabContents == {"", "a = 1"}

NoTabRet == [op |-> "none", index |-> 0, before |-> << >>, result |-> 0]

RemoveAt(seq, k) == SubSeq(seq, 1, k - 1) \o SubSeq(seq, k + 1, Len(seq))

\* the tab a container creates on its own
DefaultTab(id) == [id |-> id, name |-> "Python", contents |-> ""]

\* remove(index): the tabs left once the call has returned; index counts
\* from 0
TabsAfterRemoveNoRefill(tbs, index, id) == RemoveAt(tbs, index + 1)

TabsAfterRemove(tbs, index, id) ==
    IF RemoveAt(tbs, index + 1) = << >>
    THEN << DefaultTab(id) >>
    ELSE RemoveAt(tbs, index + 1)

\* add(name, contents): the tabs once the new tab is in
TabsAfterAddInFront(tbs, tab) == << tab >> \o tbs

TabsAfterAdd(tbs, tab) == Append(tbs, tab)

\* add(name, contents): a new tab at the end, made current; its index is
\* returned
add_tab(name, contents) ==
    /\ Len(tabs) < MaxTabs
    /\ next_id <= MaxTabIds
    /\ tabs' = TabsAfterAdd(tabs, [id |-> next_id, name |-> name, contents |-> contents])
    /\ current' = Len(tabs)
    /\ next_id' = next_id + 1
    /\ tab_ret' = [op |-> "add", index |-> Len(tabs), before |-> tabs, result |-> Len(tabs)]
    /\ UNCHANGED <<exec_vars, edit_vars, app_vars, widget_class, out_vars>>

remove_tab(index) ==
    /\ index \in 0..(Len(tabs) - 1)
    /\ next_id <= MaxTabIds
    /\ tabs' = TabsAfterRemove(tabs, index, next_id)
    /\ next_id' = IF Len(tabs) = 1 THEN next_id + 1 ELSE next_id
    /\ current' = IF Len(tabs) = 1 THEN 0
                  ELSE IF index < current THEN current - 1
                  ELSE IF current > Len(tabs) - 2 THEN Len(tabs) - 2
                  ELSE current
    /\ tab_ret' = [op |-> "remove", index |-> index, before |-> tabs, result |-> 0]
    /\ UNCHANGED <<exec_vars, edit_vars, app_vars, widget_class, out_vars>>

NextTabs ==
    \/ \E name \in TabNames, contents \in TabContents : add_tab(name, contents)
    \/ \E index \in 0..(MaxTabs - 1) : remove_tab(index)

(***************************************************************************)
(* The editor document and the line-editing commands.                      *)
(***************************************************************************)
MaxLines == 2           \* lines of the document the editor starts with
MaxEdits == 2           \* editing commands in one behaviour

Blank == {" ", "\t"}
\* the leading whitespace of a line the editor starts with: none, a space,
\* a tab, a space and a tab
Indentations == {<< >>, <<" ">>, <<"\t">>, <<" ", "\t">>}
Rests == {<< >>, <<"x">>}
StartLines == {ind \o rest : ind \in Indentations, rest \in Rests}
StartDocuments == UNION {[1..k -> StartLines] : k \in 1..MaxLines}

\* lines with and without a comment sign, for the comment command
CommentIndentations == {<< >>, <<" ">>, <<"\t", " ">>}
CommentRests == {<< >>, <<"x">>, <<"#">>, <<"#", "x">>, <<"#", " ", "x">>, <<"#", "#">>}
CommentLines == {ind \o rest : ind \in CommentIndentations, rest \in CommentRests}
CommentDocuments == UNION {[1..k -> CommentLines] : k \in {1, 2}}

\* lines of different lengths and indentations, for the selection a command
\* restores
SelectLines == {<< >>, <<"x">>, <<" ", " ", "x">>, <<"#", "x">>, <<"#", " ", "x">>}
SelectDocuments == UNION {[1..k -> SelectLines] : k \in {1, 2, 3}}

\* lines with and without a colon, for the new-line command
NewLineIndentations == {<< >>, <<" ">>, <<"\t", " ">>}
NewLineRests == {<< >>, <<"x">>, <<":">>, <<":", " ">>, <<":", "x">>, <<":", ":">>,
                 <<":", "#", ":">>}
NewLineLines == {ind \o rest : ind \in NewLineIndentations, rest \in NewLineRests}
NewLineDocuments == UNION {[1..k -> NewLineLines] : k \in {1, 2}}

\* offset of the first character of line i in the text
LineStart(ls, i) ==
    LET before[k \in 0..Len(ls)] == IF k = 0 THEN 0 ELSE before[k - 1] + Len(ls[k]) + 1
    IN  before[i - 1]

TextLen(ls) == LineStart(ls, Len(ls)) + Len(ls[Len(ls)])

\* the line (block) a position is in
LineOf(ls, pos) ==
    CHOOSE i \in 1..Len(ls) : LineStart(ls, i) <= pos /\ pos <= LineStart(ls, i) + Len(ls[i])

\* " " * n, which is empty for n <= 0
Spaces(n) == [k \in 1..n |-> " "]

\* number of leading blanks and tabs: len(m.group(1)) of ^([ \t]*)(.*)
LeadingLen(line) ==
    LET lead[k \in 0..Len(line)] ==
            IF k = Len(line) THEN 0
            ELSE IF line[k + 1] \in Blank THEN 1 + lead[k + 1] ELSE 0
    IN  lead[0]

\* m.group(1), m.group(2)
Groups(line, n) == << SubSeq(line, 1, n), SubSeq(line, n + 1, Len(line)) >>

\* _split_indentation
split_indentation(line) == Groups(line, LeadingLen(line))

\* _get_indentation_length: len(indentation.replace("\t", "    "))
get_indentation_length(ind) ==
    LET width[k \in 0..Len(ind)] ==
            IF k = 0 THEN 0 ELSE width[k - 1] + (IF ind[k] = "\t" THEN 4 ELSE 1)
    IN  width[Len(ind)]

\* indent_line: n_spaces once rounded, r = n_spaces / 4.0
IndentedLength(n) == IF n % 4 = 0 THEN n + 4 ELSE ((n + 3) \div 4) * 4

\* indent.indent_line
indent_line_always_adds(line) ==
    Spaces(get_indentation_length(split_indentation(line)[1]) + 4) \o split_indentation(line)[2]

indent_line(line) ==
    Spaces(IndentedLength(get_indentation_length(split_indentation(line)[1])))
        \o split_indentation(line)[2]

\* unindent_line: n_spaces once rounded
UnindentedLength(n) == IF n % 4 = 0 THEN n - 4 ELSE (n \div 4) * 4

\* unindent.unindent_line
unindent_line_always_subtracts(line) ==
    Spaces(get_indentation_length(split_indentation(line)[1]) - 4) \o split_indentation(line)[2]

unindent_line(line) ==
    Spaces(UnindentedLength(get_indentation_length(split_indentation(line)[1])))
        \o split_indentation(line)[2]

\* hash_pattern.match(line): ^((?:[ \t]+)?)# finds a hash before any text
HasHash(line) == LeadingLen(line) < Len(line) /\ line[LeadingLen(line) + 1] = "#"

\* block_comment_selection.add_comment_to_line
add_comment_to_line_at_own_indent(line, lowest_indent_index) ==
    SubSeq(line, 1, LeadingLen(line)) \o <<"#", " ">>
        \o SubSeq(line, LeadingLen(line) + 1, Len(line))

add_comment_to_line(line, lowest_indent_index) ==
    SubSeq(line, 1, lowest_indent_index) \o <<"#", " ">>
        \o SubSeq(line, lowest_indent_index + 1, Len(line))

\* what "# ?" matches at offset n of the line: the hash and one space
HashLen(line, n) == IF n + 2 <= Len(line) /\ line[n + 2] = " " THEN 2 ELSE 1

\* block_comment_selection.remove_comment_to_line:
\* re.sub(r"^((?:[ \t]+)?)# ?", r"\g<1>", line, 1)
remove_comment_to_line_keeps_space(line) ==
    IF HasHash(line)
    THEN SubSeq(line, 1, LeadingLen(line))
             \o SubSeq(line, LeadingLen(line) + 2, Len(line))
    ELSE line

remove_comment_to_line(line) ==
    IF HasHash(line)
    THEN SubSeq(line, 1, LeadingLen(line))
             \o SubSeq(line, LeadingLen(line) + HashLen(line, LeadingLen(line)) + 1,
                       Len(line))
    ELSE line

\* a command and the index its operation closes over
Cmd(op, at) == [op |-> op, at |-> at]

\* the operation a command hands to _operate_on_selected_lines
Operation(cmd, line) ==
    CASE cmd.op = "indent" -> indent_line(line)
      [] cmd.op = "unindent" -> unindent_line(line)
      [] cmd.op = "comment" -> add_comment_to_line(line, cmd.at)
      [] cmd.op = "uncomment" -> remove_comment_to_line(line)

\* _get_cursor_positions
SelStart(cur_pos, anc) == IF cur_pos < anc THEN cur_pos ELSE anc
SelEnd(cur_pos, anc) == IF cur_pos > anc THEN cur_pos ELSE anc

\* the lines _operate_on_selected_lines goes through, from the line of the
\* selection end up to the line of the selection start
AffectedLines(ls, cur_pos, anc) ==
    LineOf(ls, SelStart(cur_pos, anc)) .. LineOf(ls, SelEnd(cur_pos, anc))

\* what the lines lo..hi gain in length: new_end_pos - end after the loop
SumDelta(ls, cmd, lo, hi) ==
    LET sum[k \in (lo - 1)..hi] ==
            IF k < lo THEN 0
            ELSE sum[k - 1] + Len(Operation(cmd, ls[k])) - Len(ls[k])
    IN  sum[hi]

\* QTextCursor.setPosition: a position outside the document is ignored
SetPosition(ls, old, pos) == IF pos >= 0 /\ pos <= TextLen(ls) THEN pos ELSE old

\* the lines replaced when the loop stops: all of first..last, or the lowest
\* `fail` of them when an exception ends it (fail = -1: it runs to its end)
ReplacedLinesFromTop(first, last, fail) ==
    IF fail = -1 THEN 1..last ELSE (last - fail + 1)..last

ReplacedLines(first, last, fail) ==
    IF fail = -1 THEN first..last ELSE (last - fail + 1)..last

\* removeSelectedText and insertText(altered_line) on each of these lines
ReplaceLines(ls, cmd, done) ==
    [i \in 1..Len(ls) |-> IF i \in done THEN Operation(cmd, ls[i]) ELSE ls[i]]

\* new_start_pos at the break; len and alen are the lengths of the topmost
\* line and of what replaced it, bol is beginning_of_line_pos
NewStartPos(start, cur_pos, anc, bol, len, alen, changed) ==
    IF ~changed THEN start
    ELSE IF alen > len
         THEN (IF start # bol \/ cur_pos = anc THEN start + (alen - len) ELSE start)
         ELSE (IF start - (len - alen) >= bol THEN start - (len - alen) ELSE bol)

\* new_end_pos at the break
NewEndPos(end1, bol, len, alen, changed) ==
    IF changed /\ ~(alen > len) /\ end1 < bol THEN bol ELSE end1

\* cur.setPosition(.., KeepAnchor) once the anchor is set
KeepAnchor(ls, anc, pos) == [cursor |-> SetPosition(ls, anc, pos), anchor |-> anc]

\* the selection restored, from position p0 of the cursor after the loop
Reselect(ls, p0, cur_pos, anc, new_start_pos, new_end_pos) ==
    IF cur_pos > anc
    THEN KeepAnchor(ls, SetPosition(ls, p0, new_start_pos), new_end_pos)
    ELSE KeepAnchor(ls, SetPosition(ls, p0, new_end_pos), new_start_pos)

\* the document and selection the loop and the reselection leave; recorded
\* says whether text was removed or inserted
Operated(ls, newls, done, cur_pos, anc, fail, first, bol, len, alen, changed, end1) ==
    [lines |-> newls,
     selection |-> Reselect(newls, IF first = 1 THEN alen ELSE bol - 1, cur_pos, anc,
                            NewStartPos(SelStart(cur_pos, anc), cur_pos, anc, bol,
                                        len, alen, changed),
                            NewEndPos(end1, bol, len, alen, changed)),
     recorded |-> \E i \in done : ls[i] # << >> \/ newls[i] # << >>,
     raised |-> fail # -1]

OperateBetween(ls, cur_pos, anc, cmd, fail, first, last) ==
    Operated(ls, ReplaceLines(ls, cmd, ReplacedLines(first, last, fail)),
             ReplacedLines(first, last, fail), cur_pos, anc, fail, first,
             LineStart(ls, first), Len(ls[first]), Len(Operation(cmd, ls[first])),
             ls[first] # Operation(cmd, ls[first]),
             SelEnd(cur_pos, anc) + SumDelta(ls, cmd, first, last))

\* _operate_on_selected_lines, stopped by an exception after `fail` lines
\* were replaced (fail = -1: it runs to its end)
operate_on_selected_lines(ls, cur_pos, anc, cmd, fail) ==
    OperateBetween(ls, cur_pos, anc, cmd, fail,
                   LineOf(ls, SelStart(cur_pos, anc)), LineOf(ls, SelEnd(cur_pos, anc)))

NoCmd == [op |-> "none", before |-> << << >> >>, cur_pos |-> 0, anc |-> 0,
          fail |-> -1, raised |-> FALSE, undo_before |-> << >>]

Clamp(ls, pos) == IF pos > TextLen(ls) THEN TextLen(ls) ELSE pos

\* endEditBlock(): the block is an undo step if text was removed or inserted
EndEditBlockTwoSteps(undo, ls, recorded) ==
    IF recorded THEN Append(Append(undo, ls), ls) ELSE undo

EndEditBlock(undo, ls, recorded) == IF recorded THEN Append(undo, ls) ELSE undo

\* the except clause: current_engine() is None without an engine, and the
\* call of .logger on it raises
HandlerRaises(raised, has_sgtk, has_engine) == raised /\ has_sgtk /\ ~has_engine

\* what a command that raised leaves
Interrupted(text, undo, cur_pos, anc, raised) ==
    [lines |-> text, undo_stack |-> undo, cursor |-> Clamp(text, cur_pos),
     anchor |-> Clamp(text, anc), raised |-> raised]

\* the finally clause: self.undo() if perform_undo, which takes the document
\* back to the text before the last undo step
Finally(r, ended, cur_pos, anc, handler_raises) ==
    IF r.raised /\ ~handler_raises /\ ended # << >>
    THEN Interrupted(ended[Len(ended)], SubSeq(ended, 1, Len(ended) - 1), cur_pos, anc, FALSE)
    ELSE IF r.raised
         THEN Interrupted(r.lines, ended, cur_pos, anc, handler_raises)
         ELSE [lines |-> r.lines, undo_stack |-> ended, cursor |-> r.selection.cursor,
               anchor |-> r.selection.anchor, raised |-> FALSE]

Wrapped(ls, cur_pos, anc, undo, r, has_sgtk, has_engine) ==
    Finally(r, EndEditBlock(undo, ls, r.recorded), cur_pos, anc,
            HandlerRaises(r.raised, has_sgtk, has_engine))

\* safe_modify_content wrapped around a command: begin the edit block, run
\* the command, log and undo if it raised, end the edit block.  Gives the
\* document, the undo steps and the cursor it leaves, and whether the
\* wrapper itself raised.
safe_modify_content(ls, cur_pos, anc, undo, cmd, fail, has_sgtk, has_engine) ==
    Wrapped(ls, cur_pos, anc, undo, operate_on_selected_lines(ls, cur_pos, anc, cmd, fail),
            has_sgtk, has_engine)

\* one editing command, from the key press to the return of the wrapper
Command(cmd, fail) ==
    /\ nedits < MaxEdits
    /\ nedits' = nedits + 1
    /\ \E r \in {safe_modify_content(lines, cursor, anchor, undo_stack, cmd, fail,
                                    sgtk, engine)} :
          /\ lines' = r.lines
          /\ undo_stack' = r.undo_stack
          /\ cursor' = r.cursor
          /\ anchor' = r.anchor
          /\ last_cmd' = [op |-> cmd.op, before |-> lines, cur_pos |-> cursor,
                          anc |-> anchor, fail |-> fail, raised |-> r.raised,
                          undo_before |-> undo_stack]
    /\ UNCHANGED <<sgtk, engine, save_vars, hl_vars, exec_vars, tab_vars>>

\* keyPressEvent: Tab
indent ==
    /\ Command(Cmd("indent", 0), -1)
    /\ last_cmd'.op = "indent"

\* keyPressEvent: Backtab
unindent ==
    /\ Command(Cmd("unindent", 0), -1)
    /\ last_cmd'.op = "unindent"

\* add_comment of block_comment_selection: some line of first..last has no
\* hash before its text
AddComment(ls, first, last) == \E i \in first..last : ~HasHash(ls[i])

\* lowest_indent_index after the loop over the lines first..last
LowestIndentIndex(ls, first, last) ==
    LET low[k \in first..last] ==
            IF k = first THEN LeadingLen(ls[k])
            ELSE IF LeadingLen(ls[k]) < low[k - 1] THEN LeadingLen(ls[k]) ELSE low[k - 1]
    IN  low[last]

\* the operation block_comment_selection picks for the lines first..last
CommentOperation(ls, first, last) ==
    IF AddComment(ls, first, last)
    THEN Cmd("comment", LowestIndentIndex(ls, first, last))
    ELSE Cmd("uncomment", 0)

\* keyPressEvent: Ctrl+/
block_comment_selection ==
    /\ Command(CommentOperation(lines, LineOf(lines, SelStart(cursor, anchor)),
                                 LineOf(lines, SelEnd(cursor, anchor))), -1)
    /\ last_cmd'.op \in {"comment", "uncomment"}

\* number of blanks and tabs that follow character i of the line
BlanksAfter(line, i) ==
    LET run[k \in i..Len(line)] ==
            IF k = Len(line) THEN 0
            ELSE IF line[k + 1] \in Blank THEN 1 + run[k + 1] ELSE 0
    IN  run[i]

\* :[ \t]*(#.*)?$ matches from character i on
ColonMatchesAt(line, i, blanks) ==
    /\ line[i] = ":"
    /\ IF i + blanks = Len(line) THEN TRUE ELSE line[i + blanks + 1] = "#"

\* match.span()[0] of re.search(r":[ \t]*(#.*)?$", line), -1 without a match
ColonSpanStart(line) ==
    IF \E i \in 1..Len(line) : ColonMatchesAt(line, i, BlanksAfter(line, i))
    THEN (CHOOSE i \in 1..Len(line) :
              /\ ColonMatchesAt(line, i, BlanksAfter(line, i))
              /\ \A j \in 1..(i - 1) : ~ColonMatchesAt(line, j, BlanksAfter(line, j))) - 1
    ELSE -1

\* n_spaces before the colon check
NewLineBaseIgnoringCursor(line, col, has_selection) ==
    get_indentation_length(split_indentation(line)[1])

NewLineBase(line, col, has_selection) ==
    IF ~has_selection /\ col < Len(split_indentation(line)[1])
    THEN col
    ELSE get_indentation_length(split_indentation(line)[1])

\* what the colon check adds to n_spaces
ColonExtraAnywhere(span_start, col) == IF span_start # -1 THEN 4 ELSE 0

ColonExtra(span_start, col) == IF span_start # -1 /\ col > span_start THEN 4 ELSE 0

\* n_spaces of new_line
NewLineSpaces(line, col, has_selection) ==
    NewLineBase(line, col, has_selection) + ColonExtra(ColonSpanStart(line), col)

\* removeSelectedText() and cur.insertText(new_line): the text from column
\* c1 of line first to column c2 of line last replaced by a line break and
\* n spaces
InsertedNewLine(ls, first, c1, last, c2, n) ==
    [lines |-> SubSeq(ls, 1, first - 1)
                  \o << SubSeq(ls[first], 1, c1),
                        Spaces(n) \o SubSeq(ls[last], c2 + 1, Len(ls[last])) >>
                  \o SubSeq(ls, last + 1, Len(ls)),
     selection |-> [cursor |-> LineStart(ls, first) + c1 + 1 + n,
                    anchor |-> LineStart(ls, first) + c1 + 1 + n],
     recorded |-> TRUE,
     raised |-> FALSE]

NewLineBetween(ls, cur_pos, anc, first, last) ==
    InsertedNewLine(ls, first, SelStart(cur_pos, anc) - LineStart(ls, first),
                    last, SelEnd(cur_pos, anc) - LineStart(ls, last),
                    NewLineSpaces(ls[first], SelStart(cur_pos, anc) - LineStart(ls, first),
                                  cur_pos # anc))

\* keyPressEvent: Enter, Return
add_new_line ==
    /\ nedits < MaxEdits
    /\ nedits' = nedits + 1
    /\ \E r \in {Wrapped(lines, cursor, anchor, undo_stack,
                          NewLineBetween(lines, cursor, anchor,
                                         LineOf(lines, SelStart(cursor, anchor)),
                                         LineOf(lines, SelEnd(cursor, anchor))),
                          sgtk, engine)} :
          /\ lines' = r.lines
          /\ undo_stack' = r.undo_stack
          /\ cursor' = r.cursor
          /\ anchor' = r.anchor
          /\ last_cmd' = [op |-> "new_line", before |-> lines, cur_pos |-> cursor,
                          anc |-> anchor, fail |-> -1, raised |-> r.raised,
                          undo_before |-> undo_stack]
    /\ UNCHANGED <<sgtk, engine, save_vars, hl_vars, exec_vars, tab_vars>>

\* remove_character_indentation: the test that makes it unindent
InIndentationNotAtEnd(has_selection, user_cur_pos, indentation) ==
    ~has_selection /\ user_cur_pos < Len(indentation) /\ Len(indentation) # 0

InIndentation(has_selection, user_cur_pos, indentation) ==
    ~has_selection /\ user_cur_pos <= Len(indentation) /\ Len(indentation) # 0

\* the document without the text from column c1 of line first to column c2
\* of line last
RemovedBetween(ls, first, c1, last, c2) ==
    SubSeq(ls, 1, first - 1)
        \o << SubSeq(ls[first], 1, c1) \o SubSeq(ls[last], c2 + 1, Len(ls[last])) >>
        \o SubSeq(ls, last + 1, Len(ls))

RemovedFromTo(ls, lo, hi) ==
    RemovedBetween(ls, LineOf(ls, lo), lo - LineStart(ls, LineOf(ls, lo)),
                   LineOf(ls, hi), hi - LineStart(ls, LineOf(ls, hi)))

\* where the backspace of QPlainTextEdit starts to delete: at the selection
\* start, or one character before the cursor
DeleteFrom(cur_pos, anc) ==
    IF cur_pos # anc THEN SelStart(cur_pos, anc)
    ELSE IF cur_pos > 0 THEN cur_pos - 1 ELSE 0

\* super().keyPressEvent(event) for Backspace
default_backspace ==
    /\ nedits < MaxEdits
    /\ nedits' = nedits + 1
    /\ lines' = RemovedFromTo(lines, DeleteFrom(cursor, anchor), SelEnd(cursor, anchor))
    /\ cursor' = DeleteFrom(cursor, anchor)
    /\ anchor' = DeleteFrom(cursor, anchor)
    /\ undo_stack' = IF DeleteFrom(cursor, anchor) # SelEnd(cursor, anchor)
                     THEN Append(undo_stack, lines) ELSE undo_stack
    /\ last_cmd' = [op |-> "delete", before |-> lines, cur_pos |-> cursor,
                    anc |-> anchor, fail |-> -1, raised |-> FALSE,
                    undo_before |-> undo_stack]
    /\ UNCHANGED <<sgtk, engine, save_vars, hl_vars, exec_vars, tab_vars>>

\* remove_character_indentation
remove_character_indentation(line, user_cur_pos) ==
    InIndentation(cursor # anchor, user_cur_pos, split_indentation(line)[1])

\* keyPressEvent: Backspace
backspace ==
    IF remove_character_indentation(lines[LineOf(lines, cursor)],
                                    cursor - LineStart(lines, LineOf(lines, cursor)))
    THEN Command(Cmd("unindent", 0), -1)
    ELSE default_backspace

\* a command that raises after it replaced `fail` of its lines
indent_raising ==
    \E fail \in 0..Cardinality(AffectedLines(lines, cursor, anchor)) :
        /\ Command(Cmd("indent", 0), fail)
        /\ last_cmd'.fail = fail

unindent_raising ==
    \E fail \in 0..Cardinality(AffectedLines(lines, cursor, anchor)) :
        /\ Command(Cmd("unindent", 0), fail)
        /\ last_cmd'.fail = fail

(***************************************************************************)
(* The toolkit application (app.py).                                       *)
(***************************************************************************)
MaxWidgets == 3         \* console widgets created in one behaviour
MaxAppTabs == 3         \* tabs of one console widget
MaxAppCalls == 4        \* calls made to the application in one behaviour

\* an attribute that was never assigned: reading it raises AttributeError
NoAttr == 0

NoAppRet == [op |-> "none", outcome |-> "none", panel |-> NoAttr, dialog |-> NoAttr,
             widget |-> 0, result |-> -1, n |-> 0]

AppRet(op, outcome, widget, result) ==
    [op |-> op, outcome |-> outcome, panel |-> app_panel, dialog |-> app_dialog,
     widget |-> widget, result |-> result, n |-> app_ret.n + 1]

\* ShotgunPythonConsoleWidget.__init__: the tabs of the last session, or one
\* new tab
RestoredTabs == {1, 2}

\* init_app: registers the panel and keeps its id
init_app ==
    /\ app_ret.n < MaxAppCalls
    /\ ~app_inited
    /\ app_inited' = TRUE
    /\ app_ret' = AppRet("init_app", "returned", 0, -1)
    /\ UNCHANGED <<app_panel, app_dialog, engine_panels, engine_panel, widget_tabs>>
    /\ UNCHANGED <<tabs, current, next_id, tab_ret, widget_class, out_vars, exec_vars,
                   edit_vars>>

\* create_dialog: a new console widget each time
create_dialog(ntabs) ==
    /\ app_ret.n < MaxAppCalls
    /\ Len(widget_tabs) < MaxWidgets
    /\ widget_tabs' = Append(widget_tabs, ntabs)
    /\ app_dialog' = Len(widget_tabs) + 1
    /\ app_ret' = AppRet("create_dialog", "returned", Len(widget_tabs) + 1, -1)
    /\ UNCHANGED <<app_inited, app_panel, engine_panels, engine_panel>>
    /\ UNCHANGED <<tabs, current, next_id, tab_ret, widget_class, out_vars, exec_vars,
                   edit_vars>>

\* create_panel: the engine's one panel widget; without show_panel, or
\* without the panel id of init_app, the AttributeError is caught and
\* create_dialog is used
create_panel(ntabs) ==
    /\ app_ret.n < MaxAppCalls
    /\ IF app_inited /\ engine_panels /\ engine_panel # 0
       THEN /\ app_panel' = engine_panel
            /\ app_ret' = AppRet("create_panel", "returned", engine_panel, -1)
            /\ UNCHANGED <<app_dialog, engine_panel, widget_tabs>>
       ELSE /\ Len(widget_tabs) < MaxWidgets
            /\ widget_tabs' = Append(widget_tabs, ntabs)
            /\ app_panel' = Len(widget_tabs) + 1
            /\ app_ret' = AppRet("create_panel", "returned", Len(widget_tabs) + 1, -1)
            /\ IF app_inited /\ engine_panels
               THEN engine_panel' = Len(widget_tabs) + 1 /\ UNCHANGED app_dialog
               ELSE app_dialog' = Len(widget_tabs) + 1 /\ UNCHANGED engine_panel
    /\ UNCHANGED <<app_inited, engine_panels>>
    /\ UNCHANGED <<tabs, current, next_id, tab_ret, widget_class, out_vars, exec_vars,
                   edit_vars>>

\* "widget = self._current_panel or self._current_dialog": the widget, or
\* NoAttr when the expression raises AttributeError
AddTabWidget(panel, dialog) == IF panel = NoAttr THEN NoAttr ELSE panel

\* PythonConsoleApp.add_tab
app_add_tab ==
    /\ app_ret.n < MaxAppCalls
    /\ \E w \in {AddTabWidget(app_panel, app_dialog)} :
          IF w = NoAttr
          THEN /\ app_ret' = AppRet("add_tab", "AttributeError", 0, -1)
               /\ UNCHANGED widget_tabs
          ELSE /\ widget_tabs[w] < MaxAppTabs
               /\ widget_tabs' = [widget_tabs EXCEPT ![w] = @ + 1]
               /\ app_ret' = AppRet("add_tab", "returned", w, widget_tabs[w])
    /\ UNCHANGED <<app_inited, app_panel, app_dialog, engine_panels, engine_panel>>
    /\ UNCHANGED <<tabs, current, next_id, tab_ret, widget_class, out_vars, exec_vars,
                   edit_vars>>

NextApp ==
    \/ init_app
    \/ \E ntabs \in RestoredTabs : create_dialog(ntabs)
    \/ \E ntabs \in RestoredTabs : create_panel(ntabs)
    \/ app_add_tab

(***************************************************************************)
(* Saving the document (PythonInputWidget.save).                           *)
(***************************************************************************)
Paths == {"a.py", "b.py"}

NoFile == [exists |-> FALSE, text |-> << >>]

NoSaveRet == [op |-> "none", path |-> "", open_ok |-> TRUE, write_ok |-> TRUE,
              outcome |-> "none", warned |-> FALSE, n |-> 0]

MaxSaves == 2           \* save() calls in one behaviour

SaveRet(path, open_ok, write_ok, outcome, warned) ==
    [op |-> "save", path |-> path, open_ok |-> open_ok, write_ok |-> write_ok,
     outcome |-> outcome, warned |-> warned, n |-> save_ret.n + 1]

\* open(save_path, "w"): creates or truncates the file
Opened(fs, path) == [fs EXCEPT ![path] = [exists |-> TRUE, text |-> << >>]]

\* fh.write(python_script)
Written(fs, path, text) == [fs EXCEPT ![path] = [exists |-> TRUE, text |-> text]]

\* save(), the file dialog rejected or closed without a path
save_cancelled ==
    /\ save_ret.n < MaxSaves
    /\ save_ret' = SaveRet("", TRUE, TRUE, "False", FALSE)
    /\ UNCHANGED <<files, lines, cursor, anchor, undo_stack, sgtk, engine, last_cmd,
                   nedits, hl_vars, exec_vars, tab_vars>>

\* save(), a path chosen; open_ok and write_ok say whether open() and
\* fh.write() succeed
save(path, open_ok, write_ok) ==
    /\ save_ret.n < MaxSaves
    /\ IF ~open_ok
       THEN /\ save_ret' = SaveRet(path, open_ok, write_ok, "IOError", FALSE)
            /\ UNCHANGED files
       ELSE IF ~write_ok
       THEN /\ save_ret' = SaveRet(path, open_ok, write_ok, "True", TRUE)
            /\ files' = Opened(files, path)
       ELSE /\ save_ret' = SaveRet(path, open_ok, write_ok, "True", FALSE)
            /\ files' = Written(files, path, lines)
    /\ UNCHANGED <<lines, cursor, anchor, undo_stack, sgtk, engine, last_cmd,
                   nedits, hl_vars, exec_vars, tab_vars>>

NextSave ==
    \/ save_cancelled
    \/ \E path \in Paths, open_ok \in BOOLEAN, write_ok \in BOOLEAN :
          save(path, open_ok, write_ok)

\* the console once built: no tab has executed anything, the tab container
\* and the document of the input widget are empty
Init ==
    /\ sys_stdout = OrigH /\ sys_stdin = OrigH /\ sys_stderr = OrigH
    /\ out_handle = [t \in ExecTabs |-> NoneH]
    /\ in_handle = [t \in ExecTabs |-> NoneH]
    /\ err_handle = [t \in ExecTabs |-> NoneH]
    /\ locals = [t \in ExecTabs |-> FreshLocals]
    /\ echo = [t \in ExecTabs |-> TRUE]
    /\ sink = [t \in ExecTabs |-> << >>]
    /\ stack = << >> /\ ret = NoRet /\ nexec = 0
    /\ tabs = << >> /\ current = -1 /\ next_id = 1 /\ tab_ret = NoTabRet
    /\ undo_stack = << >> /\ last_cmd = NoCmd /\ nedits = 0
    /\ app_inited = FALSE /\ app_panel = NoAttr /\ app_dialog = NoAttr
    /\ engine_panel = 0 /\ widget_tabs = << >> /\ app_ret = NoAppRet
    /\ files = [p \in Paths |-> NoFile] /\ save_ret = NoSaveRet
    /\ write_lock = 0 /\ thread_pc = [t \in Threads |-> "idle"]
    /\ pending = [t \in Threads |-> NoText] /\ document = << >>
    /\ out_cursor = 0 /\ nappends = 0 /\ out_ret = NoOutRet
    /\ hl_text = << >> /\ hl_prev = -1 /\ hl_state = -1 /\ hl_pc = "idle"
    /\ hl_delim = 0 /\ hl_start = -1 /\ hl_add = 0 /\ hl_match = NoneMatch
    /\ hl_offset = 0
    /\ widget_class = [t \in ExecTabs |-> "input_widget"]
    /\ lines = << << >> >> /\ cursor = 0 /\ anchor = 0
    /\ sgtk = FALSE /\ engine = FALSE
    /\ engine_panels = TRUE

\* a console whose tabs hold the input widget of input_widget.py or the one
\* of console.py
InitNames ==
    /\ sys_stdout = OrigH /\ sys_stdin = OrigH /\ sys_stderr = OrigH
    /\ out_handle = [t \in ExecTabs |-> NoneH]
    /\ in_handle = [t \in ExecTabs |-> NoneH]
    /\ err_handle = [t \in ExecTabs |-> NoneH]
    /\ locals = [t \in ExecTabs |-> FreshLocals]
    /\ echo = [t \in ExecTabs |-> TRUE]
    /\ sink = [t \in ExecTabs |-> << >>]
    /\ stack = << >> /\ ret = NoRet /\ nexec = 0
    /\ tabs = << >> /\ current = -1 /\ next_id = 1 /\ tab_ret = NoTabRet
    /\ undo_stack = << >> /\ last_cmd = NoCmd /\ nedits = 0
    /\ app_inited = FALSE /\ app_panel = NoAttr /\ app_dialog = NoAttr
    /\ engine_panel = 0 /\ widget_tabs = << >> /\ app_ret = NoAppRet
    /\ files = [p \in Paths |-> NoFile] /\ save_ret = NoSaveRet
    /\ write_lock = 0 /\ thread_pc = [t \in Threads |-> "idle"]
    /\ pending = [t \in Threads |-> NoText] /\ document = << >>
    /\ out_cursor = 0 /\ nappends = 0 /\ out_ret = NoOutRet
    /\ hl_text = << >> /\ hl_prev = -1 /\ hl_state = -1 /\ hl_pc = "idle"
    /\ hl_delim = 0 /\ hl_start = -1 /\ hl_add = 0 /\ hl_match = NoneMatch
    /\ hl_offset = 0
    /\ widget_class \in [ExecTabs -> {"input_widget", "console"}]
    /\ lines = << << >> >> /\ cursor = 0 /\ anchor = 0
    /\ sgtk = FALSE /\ engine = FALSE
    /\ engine_panels = TRUE

\* the highlighter is handed a block of text, after a block in any state
InitHighlight ==
    /\ sys_stdout = OrigH /\ sys_stdin = OrigH /\ sys_stderr = OrigH
    /\ out_handle = [t \in ExecTabs |-> NoneH]
    /\ in_handle = [t \in ExecTabs |-> NoneH]
    /\ err_handle = [t \in ExecTabs |-> NoneH]
    /\ locals = [t \in ExecTabs |-> FreshLocals]
    /\ echo = [t \in ExecTabs |-> TRUE]
    /\ sink = [t \in ExecTabs |-> << >>]
    /\ stack = << >> /\ ret = NoRet /\ nexec = 0
    /\ tabs = << >> /\ current = -1 /\ next_id = 1 /\ tab_ret = NoTabRet
    /\ undo_stack = << >> /\ last_cmd = NoCmd /\ nedits = 0
    /\ app_inited = FALSE /\ app_panel = NoAttr /\ app_dialog = NoAttr
    /\ engine_panel = 0 /\ widget_tabs = << >> /\ app_ret = NoAppRet
    /\ files = [p \in Paths |-> NoFile] /\ save_ret = NoSaveRet
    /\ write_lock = 0 /\ thread_pc = [t \in Threads |-> "idle"]
    /\ pending = [t \in Threads |-> NoText] /\ document = << >>
    /\ out_cursor = 0 /\ nappends = 0 /\ out_ret = NoOutRet
    /\ hl_text \in Texts /\ hl_prev \in BlockStates /\ hl_state = -1 /\ hl_pc = "idle"
    /\ hl_delim = 0 /\ hl_start = -1 /\ hl_add = 0 /\ hl_match = NoneMatch
    /\ hl_offset = 0
    /\ widget_class = [t \in ExecTabs |-> "input_widget"]
    /\ lines = << << >> >> /\ cursor = 0 /\ anchor = 0
    /\ sgtk = FALSE /\ engine = FALSE
    /\ engine_panels = TRUE

\* the console outside a toolkit environment, as in the standalone tests,
\* with a text and a selection set
InitEdit ==
    /\ sys_stdout = OrigH /\ sys_stdin = OrigH /\ sys_stderr = OrigH
    /\ out_handle = [t \in ExecTabs |-> NoneH]
    /\ in_handle = [t \in ExecTabs |-> NoneH]
    /\ err_handle = [t \in ExecTabs |-> NoneH]
    /\ locals = [t \in ExecTabs |-> FreshLocals]
    /\ echo = [t \in ExecTabs |-> TRUE]
    /\ sink = [t \in ExecTabs |-> << >>]
    /\ stack = << >> /\ ret = NoRet /\ nexec = 0
    /\ tabs = << >> /\ current = -1 /\ next_id = 1 /\ tab_ret = NoTabRet
    /\ undo_stack = << >> /\ last_cmd = NoCmd /\ nedits = 0
    /\ app_inited = FALSE /\ app_panel = NoAttr /\ app_dialog = NoAttr
    /\ engine_panel = 0 /\ widget_tabs = << >> /\ app_ret = NoAppRet
    /\ files = [p \in Paths |-> NoFile] /\ save_ret = NoSaveRet
    /\ write_lock = 0 /\ thread_pc = [t \in Threads |-> "idle"]
    /\ pending = [t \in Threads |-> NoText] /\ document = << >>
    /\ out_cursor = 0 /\ nappends = 0 /\ out_ret = NoOutRet
    /\ hl_text = << >> /\ hl_prev = -1 /\ hl_state = -1 /\ hl_pc = "idle"
    /\ hl_delim = 0 /\ hl_start = -1 /\ hl_add = 0 /\ hl_match = NoneMatch
    /\ hl_offset = 0
    /\ widget_class = [t \in ExecTabs |-> "input_widget"]
    /\ lines \in StartDocuments
    /\ cursor \in 0..TextLen(lines)
    /\ anchor \in 0..TextLen(lines)
    /\ sgtk = FALSE /\ engine = FALSE
    /\ engine_panels = TRUE

\* every host: sgtk importable or not, an engine running or not; nothing
\* selected, or everything from the start of the text
InitSafe ==
    /\ sys_stdout = OrigH /\ sys_stdin = OrigH /\ sys_stderr = OrigH
    /\ out_handle = [t \in ExecTabs |-> NoneH]
    /\ in_handle = [t \in ExecTabs |-> NoneH]
    /\ err_handle = [t \in ExecTabs |-> NoneH]
    /\ locals = [t \in ExecTabs |-> FreshLocals]
    /\ echo = [t \in ExecTabs |-> TRUE]
    /\ sink = [t \in ExecTabs |-> << >>]
    /\ stack = << >> /\ ret = NoRet /\ nexec = 0
    /\ tabs = << >> /\ current = -1 /\ next_id = 1 /\ tab_ret = NoTabRet
    /\ undo_stack = << >> /\ last_cmd = NoCmd /\ nedits = 0
    /\ app_inited = FALSE /\ app_panel = NoAttr /\ app_dialog = NoAttr
    /\ engine_panel = 0 /\ widget_tabs = << >> /\ app_ret = NoAppRet
    /\ files = [p \in Paths |-> NoFile] /\ save_ret = NoSaveRet
    /\ write_lock = 0 /\ thread_pc = [t \in Threads |-> "idle"]
    /\ pending = [t \in Threads |-> NoText] /\ document = << >>
    /\ out_cursor = 0 /\ nappends = 0 /\ out_ret = NoOutRet
    /\ hl_text = << >> /\ hl_prev = -1 /\ hl_state = -1 /\ hl_pc = "idle"
    /\ hl_delim = 0 /\ hl_start = -1 /\ hl_add = 0 /\ hl_match = NoneMatch
    /\ hl_offset = 0
    /\ widget_class = [t \in ExecTabs |-> "input_widget"]
    /\ lines \in StartDocuments
    /\ cursor \in {0, TextLen(lines)} /\ anchor = 0
    /\ sgtk \in BOOLEAN /\ engine \in BOOLEAN
    /\ engine => sgtk
    /\ engine_panels = TRUE

NextEdit == indent \/ unindent

NextSafe == indent \/ unindent \/ indent_raising \/ unindent_raising

SpecExec == Init /\ [][NextExec]_vars

SpecTabs == Init /\ [][NextTabs]_vars

SpecEdit == InitEdit /\ [][NextEdit]_vars

SpecSafe == InitSafe /\ [][NextSafe]_vars

\* the application as the engine loads it: nothing created, no attribute set
InitApp ==
    /\ sys_stdout = OrigH /\ sys_stdin = OrigH /\ sys_stderr = OrigH
    /\ out_handle = [t \in ExecTabs |-> NoneH]
    /\ in_handle = [t \in ExecTabs |-> NoneH]
    /\ err_handle = [t \in ExecTabs |-> NoneH]
    /\ locals = [t \in ExecTabs |-> Unbound]
    /\ echo = [t \in ExecTabs |-> TRUE]
    /\ sink = [t \in ExecTabs |-> << >>]
    /\ stack = << >> /\ ret = NoRet /\ nexec = 0
    /\ tabs = << >> /\ current = -1 /\ next_id = 1 /\ tab_ret = NoTabRet
    /\ lines = Blank /\ cursor = 0 /\ anchor = 0
    /\ undo_stack = << >> /\ last_cmd = NoCmd /\ nedits = 0
    /\ sgtk = TRUE /\ engine = TRUE
    /\ engine_panels \in BOOLEAN
    /\ app_inited = FALSE /\ app_panel = NoAttr /\ app_dialog = NoAttr
    /\ engine_panel = 0 /\ widget_tabs = << >> /\ app_ret = NoAppRet
    /\ files = [p \in Paths |-> NoFile] /\ save_ret = NoSaveRet
    /\ write_lock = 0 /\ thread_pc = [t \in Threads |-> "idle"]
    /\ pending = [t \in Threads |-> NoText] /\ document = << >>
    /\ out_cursor = 0 /\ nappends = 0 /\ out_ret = NoOutRet
    /\ hl_text = << >> /\ hl_prev = -1 /\ hl_state = -1 /\ hl_pc = "idle"
    /\ hl_delim = 0 /\ hl_start = -1 /\ hl_add = 0 /\ hl_match = NoneMatch
    /\ hl_offset = 0
    /\ widget_class = [t \in ExecTabs |-> "input_widget"]

SpecApp == InitApp /\ [][NextApp]_vars
SpecNames == InitNames /\ [][NextNames]_vars
\* highlightBlock is sequential code: it runs on until it returns
SpecHighlight == InitHighlight /\ [][NextHighlight]_vars /\ WF_vars(NextHighlight)
SpecOutput == Init /\ [][NextOutput]_vars
\* every thread is scheduled: a thread that can take its next step in an
\* add_* call takes it
SpecOutputFair == SpecOutput /\ \A t \in Threads : WF_vars(ThreadStep(t))

\* an editor holding a script of up to three lines, some text selected
InitSelect ==
    /\ sys_stdout = OrigH /\ sys_stdin = OrigH /\ sys_stderr = OrigH
    /\ out_handle = [t \in ExecTabs |-> NoneH]
    /\ in_handle = [t \in ExecTabs |-> NoneH]
    /\ err_handle = [t \in ExecTabs |-> NoneH]
    /\ locals = [t \in ExecTabs |-> Unbound]
    /\ echo = [t \in ExecTabs |-> TRUE]
    /\ sink = [t \in ExecTabs |-> << >>]
    /\ stack = << >> /\ ret = NoRet /\ nexec = 0
    /\ tabs = << >> /\ current = -1 /\ next_id = 1 /\ tab_ret = NoTabRet
    /\ lines \in SelectDocuments
    /\ cursor \in 0..TextLen(lines) /\ anchor \in 0..TextLen(lines)
    /\ undo_stack = << >> /\ last_cmd = NoCmd /\ nedits = 0
    /\ sgtk = FALSE /\ engine = FALSE
    /\ engine_panels = TRUE
    /\ app_inited = FALSE /\ app_panel = NoAttr /\ app_dialog = NoAttr
    /\ engine_panel = 0 /\ widget_tabs = << >> /\ app_ret = NoAppRet
    /\ files = [p \in Paths |-> NoFile] /\ save_ret = NoSaveRet
    /\ write_lock = 0 /\ thread_pc = [t \in Threads |-> "idle"]
    /\ pending = [t \in Threads |-> NoText] /\ document = << >>
    /\ out_cursor = 0 /\ nappends = 0 /\ out_ret = NoOutRet
    /\ hl_text = << >> /\ hl_prev = -1 /\ hl_state = -1 /\ hl_pc = "idle"
    /\ hl_delim = 0 /\ hl_start = -1 /\ hl_add = 0 /\ hl_match = NoneMatch
    /\ hl_offset = 0
    /\ widget_class = [t \in ExecTabs |-> "input_widget"]

NextSelect == indent \/ unindent \/ block_comment_selection

SpecSelect == InitSelect /\ [][NextSelect]_vars

NextKeys == indent \/ unindent \/ block_comment_selection \/ add_new_line \/ backspace

SpecKeys == InitSelect /\ [][NextKeys]_vars

NextBackspace == backspace

SpecBackspace == InitEdit /\ [][NextBackspace]_vars

\* an editor holding a script with colons, some text selected
InitNewLine ==
    /\ sys_stdout = OrigH /\ sys_stdin = OrigH /\ sys_stderr = OrigH
    /\ out_handle = [t \in ExecTabs |-> NoneH]
    /\ in_handle = [t \in ExecTabs |-> NoneH]
    /\ err_handle = [t \in ExecTabs |-> NoneH]
    /\ locals = [t \in ExecTabs |-> Unbound]
    /\ echo = [t \in ExecTabs |-> TRUE]
    /\ sink = [t \in ExecTabs |-> << >>]
    /\ stack = << >> /\ ret = NoRet /\ nexec = 0
    /\ tabs = << >> /\ current = -1 /\ next_id = 1 /\ tab_ret = NoTabRet
    /\ lines \in NewLineDocuments
    /\ cursor \in 0..TextLen(lines) /\ anchor \in 0..TextLen(lines)
    /\ undo_stack = << >> /\ last_cmd = NoCmd /\ nedits = 0
    /\ sgtk = FALSE /\ engine = FALSE
    /\ engine_panels = TRUE
    /\ app_inited = FALSE /\ app_panel = NoAttr /\ app_dialog = NoAttr
    /\ engine_panel = 0 /\ widget_tabs = << >> /\ app_ret = NoAppRet
    /\ files = [p \in Paths |-> NoFile] /\ save_ret = NoSaveRet
    /\ write_lock = 0 /\ thread_pc = [t \in Threads |-> "idle"]
    /\ pending = [t \in Threads |-> NoText] /\ document = << >>
    /\ out_cursor = 0 /\ nappends = 0 /\ out_ret = NoOutRet
    /\ hl_text = << >> /\ hl_prev = -1 /\ hl_state = -1 /\ hl_pc = "idle"
    /\ hl_delim = 0 /\ hl_start = -1 /\ hl_add = 0 /\ hl_match = NoneMatch
    /\ hl_offset = 0
    /\ widget_class = [t \in ExecTabs |-> "input_widget"]

NextNewLine == add_new_line

SpecNewLine == InitNewLine /\ [][NextNewLine]_vars

\* an editor holding a script with comments, some text selected
InitComment ==
    /\ sys_stdout = OrigH /\ sys_stdin = OrigH /\ sys_stderr = OrigH
    /\ out_handle = [t \in ExecTabs |-> NoneH]
    /\ in_handle = [t \in ExecTabs |-> NoneH]
    /\ err_handle = [t \in ExecTabs |-> NoneH]
    /\ locals = [t \in ExecTabs |-> Unbound]
    /\ echo = [t \in ExecTabs |-> TRUE]
    /\ sink = [t \in ExecTabs |-> << >>]
    /\ stack = << >> /\ ret = NoRet /\ nexec = 0
    /\ tabs = << >> /\ current = -1 /\ next_id = 1 /\ tab_ret = NoTabRet
    /\ lines \in CommentDocuments
    /\ cursor \in 0..TextLen(lines) /\ anchor \in 0..TextLen(lines)
    /\ undo_stack = << >> /\ last_cmd = NoCmd /\ nedits = 0
    /\ sgtk = FALSE /\ engine = FALSE
    /\ engine_panels = TRUE
    /\ app_inited = FALSE /\ app_panel = NoAttr /\ app_dialog = NoAttr
    /\ engine_panel = 0 /\ widget_tabs = << >> /\ app_ret = NoAppRet
    /\ files = [p \in Paths |-> NoFile] /\ save_ret = NoSaveRet
    /\ write_lock = 0 /\ thread_pc = [t \in Threads |-> "idle"]
    /\ pending = [t \in Threads |-> NoText] /\ document = << >>
    /\ out_cursor = 0 /\ nappends = 0 /\ out_ret = NoOutRet
    /\ hl_text = << >> /\ hl_prev = -1 /\ hl_state = -1 /\ hl_pc = "idle"
    /\ hl_delim = 0 /\ hl_start = -1 /\ hl_add = 0 /\ hl_match = NoneMatch
    /\ hl_offset = 0
    /\ widget_class = [t \in ExecTabs |-> "input_widget"]

NextComment == block_comment_selection

SpecComment == InitComment /\ [][NextComment]_vars

\* an editor holding a script, nothing saved yet
InitSave ==
    /\ sys_stdout = OrigH /\ sys_stdin = OrigH /\ sys_stderr = OrigH
    /\ out_handle = [t \in ExecTabs |-> NoneH]
    /\ in_handle = [t \in ExecTabs |-> NoneH]
    /\ err_handle = [t \in ExecTabs |-> NoneH]
    /\ locals = [t \in ExecTabs |-> Unbound]
    /\ echo = [t \in ExecTabs |-> TRUE]
    /\ sink = [t \in ExecTabs |-> << >>]
    /\ stack = << >> /\ ret = NoRet /\ nexec = 0
    /\ tabs = << >> /\ current = -1 /\ next_id = 1 /\ tab_ret = NoTabRet
    /\ lines \in StartDocuments /\ cursor = 0 /\ anchor = 0
    /\ undo_stack = << >> /\ last_cmd = NoCmd /\ nedits = 0
    /\ sgtk = FALSE /\ engine = FALSE
    /\ engine_panels = TRUE
    /\ app_inited = FALSE /\ app_panel = NoAttr /\ app_dialog = NoAttr
    /\ engine_panel = 0 /\ widget_tabs = << >> /\ app_ret = NoAppRet
    /\ files = [p \in Paths |-> NoFile] /\ save_ret = NoSaveRet
    /\ write_lock = 0 /\ thread_pc = [t \in Threads |-> "idle"]
    /\ pending = [t \in Threads |-> NoText] /\ document = << >>
    /\ out_cursor = 0 /\ nappends = 0 /\ out_ret = NoOutRet
    /\ hl_text = << >> /\ hl_prev = -1 /\ hl_state = -1 /\ hl_pc = "idle"
    /\ hl_delim = 0 /\ hl_start = -1 /\ hl_add = 0 /\ hl_match = NoneMatch
    /\ hl_offset = 0
    /\ widget_class = [t \in ExecTabs |-> "input_widget"]

SpecSave == InitSave /\ [][NextSave]_vars

(***************************************************************************)
(* Properties of the execution engine.                                     *)
(***************************************************************************)
Finished == ret.outcome # "none" /\ ret.script # ""

SyntaxErrorText == "Traceback (most recent call last): SyntaxError"

ResultsOf(evs) == SelectSeq(evs, LAMBDA e : e.type = "result")
ErrorsOf(evs) == SelectSeq(evs, LAMBDA e : e.type = "error")

\* C1: an execution whose text fails to compile or whose code raises an
\* exception returns normally to its caller, and has emitted an error event
\* with the formatted traceback.
C1_FailureNeverPropagates ==
    (Finished /\ ret.failed) =>
        /\ ret.outcome = "returned"
        /\ Len(ErrorsOf(ret.events)) >= 1

\* C2: an execution with no other execution nested in it leaves sys.stdout,
\* sys.stderr and sys.stdin, when it returns or raises, equal to what they
\* were when it began.
C2_HandlesRestored ==
    (ret.outcome # "none" /\ ~ret.nested) => ret.h1 = ret.h0

C2_Witness ==
    /\ ret.outcome = "raised" /\ ret.kind = "exec" /\ ~ret.nested
    /\ ret.h0 = <<OrigH, OrigH, OrigH>>
    /\ out_handle[ret.tab] = OrigH

\* C3: a text that compiles neither as an expression nor as statements gives
\* one error event carrying the formatted syntax error, no result event, no
\* evaluated code, and (no other execution being nested in it) the symbol
\* table it started with.
C3_CompileErrorShortCircuits ==
    (Finished /\ ~CompilesAsExpression(ret.script) /\ ~CompilesAsStatements(ret.script)) =>
        /\ ErrorsOf(ret.events) = << Event("error", SyntaxErrorText, ret.tab) >>
        /\ ResultsOf(ret.events) = << >>
        /\ ret.ops = 0
        /\ (~ret.nested => ret.locals1 = ret.locals0)

C3_Witness ==
    /\ Finished /\ ret.script = "def f(:"
    /\ ret.locals0["a"] = 1
    /\ Len(sink[ret.tab]) >= 2

\* C4: a name bound by one execution stays bound to the same value for the
\* later executions of the tab: "a = 1" leaves a bound to 1, a later "a"
\* gives the result "1", and the only steps that change a tab's symbol
\* table are the bindings made by the code the tab is evaluating.
C4_BoundAfterAssignment ==
    (Finished /\ ret.script = "a = 1") => ret.locals1["a"] = 1

C4_ReadGivesBoundValue ==
    (Finished /\ ret.script = "a" /\ ret.locals0["a"] = 1) =>
        ResultsOf(ret.events) = << Event("result", "1", ret.tab) >>

C4_OnlyBindingsChangeTable ==
    \A t \in ExecTabs :
        locals'[t] # locals[t] =>
            IF stack = << >> THEN FALSE
            ELSE /\ Top.tab = t /\ Top.pc = "run" /\ Top.ip <= Len(Code(Top.script))
                 /\ Code(Top.script)[Top.ip].op = "bind"
                 /\ locals'[t] = [locals[t] EXCEPT ![Code(Top.script)[Top.ip].name] =
                                                       Code(Top.script)[Top.ip].val]

C4_SymbolTablePersists ==
    /\ [](C4_BoundAfterAssignment /\ C4_ReadGivesBoundValue)
    /\ [][C4_OnlyBindingsChangeTable]_vars

C4_Witness ==
    /\ Finished /\ ret.script = "a" /\ ret.locals0["a"] = 1
    /\ ret.outcome = "returned"
    /\ Event("result", "1", ret.tab) \in {sink[ret.tab][k] : k \in 1..Len(sink[ret.tab])}

\* the str() of the value an expression text evaluates to
ExpectedResult(script, loc) ==
    CASE script = "1 + 1" -> "2"
      [] script = "a" -> IF loc["a"] = 1 THEN "1" ELSE "2"
      [] OTHER -> "None"

\* C5: a text that compiles as an expression is evaluated as an expression
\* and, when the evaluation raises nothing, gives exactly one result event
\* carrying str(value); a text that compiles only as statements gives no
\* result event.
C5_ExpressionFirst ==
    Finished =>
        /\ (CompilesAsExpression(ret.script) /\ ~ret.failed) =>
               ResultsOf(ret.events) =
                   << Event("result", ExpectedResult(ret.script, ret.locals0), ret.tab) >>
        /\ (~CompilesAsExpression(ret.script) /\ CompilesAsStatements(ret.script)) =>
               ResultsOf(ret.events) = << >>

C5_Witness ==
    /\ Finished /\ ret.script = "1 + 1" /\ ret.outcome = "returned"
    /\ ResultsOf(ret.events) = << Event("result", "2", ret.tab) >>

\* C8: every output event of a tab was written by code executing in that
\* tab.
C8_NoCrossTalk ==
    \A t \in ExecTabs : \A k \in 1..Len(sink[t]) :
        sink[t][k].type = "output" => sink[t][k].by = t

(***************************************************************************)
(* Properties of the tab container.                                        *)
(***************************************************************************)
TabIds(tbs) == {tbs[k].id : k \in 1..Len(tbs)}

\* C6: once remove_tab(index) has returned the container holds at least
\* one tab: removing one of n >= 2 tabs leaves n - 1 tabs, removing the
\* sole tab leaves exactly one tab, which is new and empty; and after any
\* sequence of add_tab and remove_tab calls the container is not empty.
C6_NeverEmptyAfterRemove ==
    /\ tab_ret.op # "none" => Len(tabs) >= 1
    /\ tab_ret.op = "remove" =>
          /\ Len(tab_ret.before) >= 2 => Len(tabs) = Len(tab_ret.before) - 1
          /\ Len(tab_ret.before) = 1 =>
                /\ Len(tabs) = 1
                /\ tabs[1].contents = ""
                /\ tabs[1].id \notin TabIds(tab_ret.before)

C6_Witness ==
    /\ tab_ret.op = "remove"
    /\ Len(tab_ret.before) = 1 /\ tab_ret.before[1].contents = "a = 1"
    /\ Len(tabs) = 1 /\ tabs[1].contents = ""
    /\ next_id > 3

(***************************************************************************)
(* Properties of the line-editing commands.                                *)
(***************************************************************************)
\* C7: when an editing command raised partway, the text the wrapper leaves
\* is the text from before the command, in every host configuration and
\* also when the command raised before it changed anything.
C7_RollbackOnException ==
    (last_cmd.op # "none" /\ last_cmd.fail # -1) => lines = last_cmd.before

\* the number of leading blanks and tabs of a line
Lead(line) ==
    Cardinality({j \in 1..Len(line) : \A m \in 1..j : line[m] = " " \/ line[m] = "\t"})

\* their width, a tab counting as 4
Width(line) == Lead(line) + 3 * Cardinality({j \in 1..Lead(line) : line[j] = "\t"})

\* the line after its leading whitespace
RestOf(line) == [j \in 1..(Len(line) - Lead(line)) |-> line[Lead(line) + j]]

\* k spaces followed by the rest of the line
Reindented(line, k) ==
    [j \in 1..(k + Len(line) - Lead(line)) |-> IF j <= k THEN " " ELSE line[Lead(line) + j - k]]

\* the lines the selection of a command reaches into
Touched(ls, cur_pos, anc) ==
    {i \in 1..Len(ls) :
        /\ LineStart(ls, i) <= (IF cur_pos > anc THEN cur_pos ELSE anc)
        /\ LineStart(ls, i) + Len(ls[i]) >= (IF cur_pos < anc THEN cur_pos ELSE anc)}

LeastMultipleAbove(n) == CHOOSE k \in (n + 1)..(n + 4) : k % 4 = 0
GreatestMultipleBelow(n) == CHOOSE k \in (n - 4)..(n - 1) : k % 4 = 0

\* C9: indent replaces the leading whitespace of every affected line by k
\* spaces, k = n + 4 if the width n of the leading whitespace (a tab
\* counting as 4) is a multiple of 4 and the least multiple of 4 above n
\* otherwise, and leaves the rest of the line as it was.
C9_IndentRoundsUp ==
    (last_cmd.op = "indent" /\ ~last_cmd.raised /\ last_cmd.fail = -1) =>
        /\ Len(lines) = Len(last_cmd.before)
        /\ \A i \in Touched(last_cmd.before, last_cmd.cur_pos, last_cmd.anc) :
              /\ lines[i] = Reindented(last_cmd.before[i],
                                       IF Width(last_cmd.before[i]) % 4 = 0
                                       THEN Width(last_cmd.before[i]) + 4
                                       ELSE LeastMultipleAbove(Width(last_cmd.before[i])))
              /\ RestOf(lines[i]) = RestOf(last_cmd.before[i])

C9_Witness ==
    /\ last_cmd.op = "indent"
    /\ Touched(last_cmd.before, last_cmd.cur_pos, last_cmd.anc) = {1, 2}
    /\ last_cmd.before = << <<" ", "\t", "x">>, <<" ">> >>
    /\ lines = << <<" ", " ", " ", " ", " ", " ", " ", " ", "x">>, <<" ", " ", " ", " ">> >>

\* C10: unindent replaces the leading whitespace of every affected line by
\* k spaces, k = n - 4 if the width n of the leading whitespace (a tab
\* counting as 4) is a multiple of 4 and the greatest multiple of 4 below n
\* otherwise, floored at 0: a line without leading whitespace is left as it
\* is and the number of leading spaces is never negative.
C10_UnindentRoundsDown ==
    (last_cmd.op = "unindent" /\ ~last_cmd.raised /\ last_cmd.fail = -1) =>
        /\ Len(lines) = Len(last_cmd.before)
        /\ \A i \in Touched(last_cmd.before, last_cmd.cur_pos, last_cmd.anc) :
              /\ Width(last_cmd.before[i]) = 0 => lines[i] = last_cmd.before[i]
              /\ Width(last_cmd.before[i]) > 0 =>
                    lines[i] = Reindented(last_cmd.before[i],
                                          GreatestMultipleBelow(Width(last_cmd.before[i])))
              /\ Lead(lines[i]) >= 0
              /\ RestOf(lines[i]) = RestOf(last_cmd.before[i])

C10_Witness ==
    /\ last_cmd.op = "unindent"
    /\ Touched(last_cmd.before, last_cmd.cur_pos, last_cmd.anc) = {1, 2}
    /\ last_cmd.before = << <<"x">>, <<" ", "\t", "x">> >>
    /\ lines = << <<"x">>, <<" ", " ", " ", " ", "x">> >>

\* C20: when executions nest, through the event processing inside a
\* redirector write, for different tabs or for the same tab, each exit
\* restores the handle that was active when that execution entered, so that
\* once the outermost execution has finished sys.stdout and sys.stdin are
\* the original handles and not a redirector.
C20_NestingRestoresHandles ==
    /\ (ret.outcome # "none" /\ ret.kind # "none") =>
           (ret.h1[1] = ret.h0[1] /\ ret.h1[3] = ret.h0[3])
    /\ stack = << >> => (sys_stdout = OrigH /\ sys_stdin = OrigH)

InputsOf(evs) == SelectSeq(evs, LAMBDA e : e.type = "input")

\* the events of an execution: at most one input event, and nothing before it
InputEventFirst(evs) ==
    \A k \in 2..Len(evs) : evs[k].type # "input"

\* a step that is an execute() call on a non-empty text in tab t
ExecuteRequest(t) ==
    /\ nexec' = nexec + 1
    /\ Len(stack') = Len(stack) + 1
    /\ stack'[Len(stack')].tab = t

\* C15: an execute request on a non-empty text emits, with echo enabled,
\* exactly one input event carrying the text, before compilation and before
\* every output, error and result event of the execution, also when the
\* compilation fails; with echo disabled it emits no input event.
C15_EchoOnceAndFirst ==
    /\ [](/\ InputEventFirst(ret.events)
          /\ \A k \in 1..Len(stack) : InputEventFirst(stack[k].events))
    /\ [][\A t \in ExecTabs :
            /\ ExecuteRequest(t) =>
                  /\ echo[t] =>
                        /\ Len(sink'[t]) > Len(sink[t])
                        /\ sink'[t][Len(sink[t]) + 1] =
                               Event("input", stack'[Len(stack')].script, t)
                        /\ stack'[Len(stack')].events[1] = sink'[t][Len(sink[t]) + 1]
                  /\ Len(InputsOf(sink'[t])) =
                         Len(InputsOf(sink[t])) + (IF echo[t] THEN 1 ELSE 0)
            /\ ~ExecuteRequest(t) => InputsOf(sink'[t]) = InputsOf(sink[t])]_vars

C15_Witness ==
    /\ Finished /\ ret.script = "def f(:"
    /\ Len(ret.events) = 2
    /\ ret.events[1] = Event("input", "def f(:", ret.tab)
    /\ ret.events[2].type = "error"
    /\ \E t \in ExecTabs : ~echo[t]

\* C16: a step of an execution, whether the execution succeeds, fails to
\* compile or raises, leaves the buffer text and selection and the number
\* and order of the tabs as they are, and changes the symbol table of no
\* tab but the one whose code is running.
C16_ExecutionFrame ==
    [][/\ lines' = lines /\ cursor' = cursor /\ anchor' = anchor
       /\ tabs' = tabs /\ current' = current
       /\ \A u \in ExecTabs :
             locals'[u] # locals[u] =>
                 IF stack = << >> THEN FALSE ELSE Top.tab = u]_vars

C16_Witness ==
    /\ Finished /\ ret.failed /\ ret.script = "a = 2; b"
    /\ locals[ret.tab]["a"] = 2
    /\ \E u \in ExecTabs : u # ret.tab /\ locals[u] = FreshLocals
    /\ lines = << << >> >> /\ tabs = << >>

\* C17: add_tab(name, contents) adds exactly one tab, after the tabs there
\* were, which keep their order and contents; the new tab is the current
\* tab and its index is what the call returns.
C17_AddTabAppends ==
    tab_ret.op = "add" =>
        /\ Len(tabs) = Len(tab_ret.before) + 1
        /\ SubSeq(tabs, 1, Len(tab_ret.before)) = tab_ret.before
        /\ tabs[Len(tabs)].id \notin TabIds(tab_ret.before)
        /\ current = Len(tabs) - 1
        /\ tab_ret.result = Len(tabs) - 1

C17_Witness ==
    /\ tab_ret.op = "add" /\ Len(tab_ret.before) = 2
    /\ tab_ret.before[1].contents = "a = 1"
    /\ tabs[1] = tab_ret.before[1] /\ tabs[2] = tab_ret.before[2]
    /\ current = 2 /\ tab_ret.result = 2

(***************************************************************************)
(* C18: PythonConsoleApp.add_tab adds the tab to the current panel, or to  *)
(* the current dialog when there is no panel, and returns the new tab's    *)
(* index; when neither was created it raises TankError; for every order   *)
(* of init_app, create_panel, create_dialog and add_tab.                   *)
(***************************************************************************)
C18_AddTabTarget ==
    app_ret.op = "add_tab" =>
        IF app_ret.panel # NoAttr
        THEN /\ app_ret.outcome = "returned"
             /\ app_ret.widget = app_ret.panel
             /\ widget_tabs[app_ret.widget] = app_ret.result + 1
        ELSE IF app_ret.dialog # NoAttr
        THEN /\ app_ret.outcome = "returned"
             /\ app_ret.widget = app_ret.dialog
             /\ widget_tabs[app_ret.widget] = app_ret.result + 1
        ELSE app_ret.outcome = "TankError"

(***************************************************************************)
(* C19: an I/O error while saving, whether it occurs when opening the file *)
(* for writing or when writing the text, is caught inside save and         *)
(* reported through a warning dialog; it never propagates to the caller.   *)
(***************************************************************************)
C19_SaveErrorsCaught ==
    (save_ret.op = "save" /\ save_ret.path # ""
        /\ (~save_ret.open_ok \/ ~save_ret.write_ok)) =>
        /\ save_ret.outcome \in {"True", "False"}
        /\ save_ret.warned

\* the line has a # as its first character after the leading whitespace
LeadingHash(line) == RestOf(line) # << >> /\ RestOf(line)[1] = "#"

\* the least number of leading whitespace characters among the lines S
MinLead(ls, S) ==
    CHOOSE n \in {Lead(ls[i]) : i \in S} : \A i \in S : n <= Lead(ls[i])

\* the line with "# " inserted at column col
Commented(line, col) ==
    [j \in 1..(Len(line) + 2) |->
        IF j <= col THEN line[j]
        ELSE IF j = col + 1 THEN "#"
        ELSE IF j = col + 2 THEN " " ELSE line[j - 2]]

\* the line without the d characters that follow its leading whitespace
Dropped(line, d) ==
    [j \in 1..(Len(line) - d) |-> IF j <= Lead(line) THEN line[j] ELSE line[j + d]]

\* the line without its first # and the one space after it
Uncommented(line) ==
    Dropped(line, IF Len(RestOf(line)) >= 2 /\ RestOf(line)[2] = " " THEN 2 ELSE 1)

(***************************************************************************)
(* C11: block-comment-toggle comments all affected lines if at least one   *)
(* of them lacks a leading # after its indentation, inserting "# " into    *)
(* every affected line at the same column, the minimum indentation length  *)
(* over the affected lines; if every affected line has a leading #, it     *)
(* removes from each the first # and the one space following it if         *)
(* present, keeping the line's indentation.                                *)
(***************************************************************************)
C11_BlockCommentToggle ==
    (last_cmd.op \in {"comment", "uncomment"} /\ ~last_cmd.raised) =>
        /\ Len(lines) = Len(last_cmd.before)
        /\ \A i \in 1..Len(lines) :
              i \notin Touched(last_cmd.before, last_cmd.cur_pos, last_cmd.anc) =>
                  lines[i] = last_cmd.before[i]
        /\ IF \E i \in Touched(last_cmd.before, last_cmd.cur_pos, last_cmd.anc) :
                  ~LeadingHash(last_cmd.before[i])
           THEN \A i \in Touched(last_cmd.before, last_cmd.cur_pos, last_cmd.anc) :
                    lines[i] = Commented(last_cmd.before[i],
                                         MinLead(last_cmd.before,
                                                 Touched(last_cmd.before, last_cmd.cur_pos,
                                                         last_cmd.anc)))
           ELSE \A i \in Touched(last_cmd.before, last_cmd.cur_pos, last_cmd.anc) :
                    /\ lines[i] = Uncommented(last_cmd.before[i])
                    /\ Lead(lines[i]) >= Lead(last_cmd.before[i])
                    /\ SubSeq(lines[i], 1, Lead(last_cmd.before[i]))
                           = SubSeq(last_cmd.before[i], 1, Lead(last_cmd.before[i]))

C11_Witness ==
    /\ last_cmd.op = "comment"
    /\ Touched(last_cmd.before, last_cmd.cur_pos, last_cmd.anc) = {1, 2}
    /\ last_cmd.before = << <<" ", "#", "x">>, <<"\t", " ", "x">> >>
    /\ lines = << <<" ", "#", " ", "#", "x">>, <<"\t", "#", " ", " ", "x">> >>

\* the text of the document: its lines joined by line breaks
Text(ls) ==
    LET txt[k \in 1..Len(ls)] ==
            IF k = 1 THEN ls[1] ELSE txt[k - 1] \o <<"\n">> \o ls[k]
    IN  txt[Len(ls)]

\* the text with the characters after offset lo up to offset hi replaced
Spliced(text, lo, hi, new) ==
    SubSeq(text, 1, lo) \o new \o SubSeq(text, hi + 1, Len(text))

\* a line break and k spaces
BreakAndSpaces(k) == [j \in 1..(k + 1) |-> IF j = 1 THEN "\n" ELSE " "]

\* start and end of the selection a command found
Lo(c) == IF c.cur_pos < c.anc THEN c.cur_pos ELSE c.anc
Hi(c) == IF c.cur_pos > c.anc THEN c.cur_pos ELSE c.anc

\* the line a command's selection starts in, and the column in it
StartLine(c) ==
    c.before[CHOOSE i \in 1..Len(c.before) :
                 /\ LineStart(c.before, i) <= Lo(c)
                 /\ Lo(c) <= LineStart(c.before, i) + Len(c.before[i])]
StartColumn(c) ==
    Lo(c) - Cardinality({j \in 1..Lo(c) : \E m \in j..Lo(c) : Text(c.before)[m] = "\n"})

\* N of the new-line command, the colon rule aside
ExpectedN(c) ==
    IF c.cur_pos = c.anc /\ StartColumn(c) < Lead(StartLine(c))
    THEN StartColumn(c)
    ELSE Width(StartLine(c))

(***************************************************************************)
(* C12: new-line deletes any selected text and inserts, at the selection   *)
(* start, a newline followed by N spaces, N being the indentation width    *)
(* (a tab counting as 4) of the line containing the selection start, or    *)
(* the cursor's column when nothing is selected and the cursor is inside   *)
(* that line's leading whitespace; the text before the selection start and *)
(* after the selection end is unchanged.  (N grows by 4 under the colon    *)
(* rule, which applies only to a line with a colon.)                       *)
(***************************************************************************)
C12_NewLineIndentation ==
    (last_cmd.op = "new_line" /\ ~last_cmd.raised) =>
        /\ \E extra \in {0, 4} :
              Text(lines) = Spliced(Text(last_cmd.before), Lo(last_cmd), Hi(last_cmd),
                                    BreakAndSpaces(ExpectedN(last_cmd) + extra))
        /\ (\A j \in 1..Len(StartLine(last_cmd)) : StartLine(last_cmd)[j] # ":") =>
              Text(lines) = Spliced(Text(last_cmd.before), Lo(last_cmd), Hi(last_cmd),
                                    BreakAndSpaces(ExpectedN(last_cmd)))

C12_Witness ==
    /\ last_cmd.op = "new_line"
    /\ last_cmd.before = << <<"\t", " ", "x">>, <<" ", "x">> >>
    /\ last_cmd.cur_pos = 1 /\ last_cmd.anc = 1
    /\ lines = << <<"\t">>, <<" ", " ", "x">>, <<" ", "x">> >>

\* from character i on, the text is a colon, spaces and tabs, and then
\* either nothing or a # comment
ColonTailFrom(text, i) ==
    /\ text[i] = ":"
    /\ \E k \in i..Len(text) :
          /\ \A m \in (i + 1)..k : text[m] = " " \/ text[m] = "\t"
          /\ IF k = Len(text) THEN TRUE ELSE text[k + 1] = "#"

\* the text ends with a colon optionally followed by spaces/tabs and an
\* optional # comment
EndsWithColon(text) == \E i \in 1..Len(text) : ColonTailFrom(text, i)

\* the document a new-line command leaves when it adds `extra` to N
NewLineResult(c, extra) ==
    Spliced(Text(c.before), Lo(c), Hi(c), BreakAndSpaces(ExpectedN(c) + extra))

(***************************************************************************)
(* C13 as stated: new-line adds 4 to N if the part of the line up to the   *)
(* cursor ends with a colon optionally followed by spaces/tabs and an      *)
(* optional # comment, and adds nothing when that part does not match.     *)
(***************************************************************************)
C13_ColonInPartUpToCursor ==
    (last_cmd.op = "new_line" /\ ~last_cmd.raised) =>
        Text(lines) =
            NewLineResult(last_cmd,
                          IF EndsWithColon(SubSeq(StartLine(last_cmd), 1,
                                                  StartColumn(last_cmd)))
                          THEN 4 ELSE 0)

(***************************************************************************)
(* C13 amended: new-line adds 4 to N if the whole line containing the      *)
(* selection start ends with a colon optionally followed by spaces/tabs    *)
(* and an optional # comment and the cursor is after that colon; it adds   *)
(* nothing otherwise: when the cursor is before the colon, or when other   *)
(* text follows the colon on the line.                                     *)
(***************************************************************************)
C13_ColonInWholeLine ==
    (last_cmd.op = "new_line" /\ ~last_cmd.raised) =>
        Text(lines) =
            NewLineResult(last_cmd,
                          IF \E i \in 1..StartColumn(last_cmd) :
                                 ColonTailFrom(StartLine(last_cmd), i)
                          THEN 4 ELSE 0)

C13_Witness ==
    /\ last_cmd.op = "new_line"
    /\ last_cmd.before = << <<" ", ":", " ">> >>
    /\ last_cmd.cur_pos = 3 /\ last_cmd.anc = 3
    /\ lines = << <<" ", ":", " ">>, <<" ", " ", " ", " ", " ">> >>

\* the index of the line a command's selection starts in
StartIndex(c) ==
    CHOOSE i \in 1..Len(c.before) :
        /\ LineStart(c.before, i) <= Lo(c)
        /\ Lo(c) <= LineStart(c.before, i) + Len(c.before[i])

\* no selection, and the cursor inside or at the end of a non-empty run of
\* leading whitespace
CursorInLeadingWhitespace(c) ==
    /\ c.cur_pos = c.anc
    /\ Lead(StartLine(c)) > 0
    /\ StartColumn(c) <= Lead(StartLine(c))

\* the text the default backspace leaves: the selection deleted, or the
\* character before the cursor
DefaultDeletion(c) ==
    IF c.cur_pos # c.anc THEN Spliced(Text(c.before), Lo(c), Hi(c), << >>)
    ELSE IF c.cur_pos = 0 THEN Text(c.before)
    ELSE Spliced(Text(c.before), c.cur_pos - 1, c.cur_pos, << >>)

(***************************************************************************)
(* C14: backspace with no selection and the cursor inside (or at the end   *)
(* of) a non-empty leading-whitespace run performs unindent on that line,  *)
(* reducing its indentation to the previous multiple of 4 without deleting *)
(* any other character and without changing the number of lines; in every  *)
(* other case (selection present, cursor after the indentation, line       *)
(* without indentation) the default deletion applies.                      *)
(***************************************************************************)
C14_BackspaceCollapsesIndentation ==
    (last_cmd.op \in {"unindent", "delete"} /\ ~last_cmd.raised) =>
        IF CursorInLeadingWhitespace(last_cmd)
        THEN /\ last_cmd.op = "unindent"
             /\ Len(lines) = Len(last_cmd.before)
             /\ \A i \in 1..Len(lines) :
                   lines[i] = IF i = StartIndex(last_cmd)
                              THEN Reindented(last_cmd.before[i],
                                              GreatestMultipleBelow(Width(last_cmd.before[i])))
                              ELSE last_cmd.before[i]
             /\ RestOf(lines[StartIndex(last_cmd)]) = RestOf(StartLine(last_cmd))
        ELSE /\ last_cmd.op = "delete"
             /\ Text(lines) = DefaultDeletion(last_cmd)

C14_Witness ==
    /\ last_cmd.op = "unindent"
    /\ last_cmd.before = << <<"x">>, <<" ", "\t", "x">> >>
    /\ last_cmd.cur_pos = 4 /\ last_cmd.anc = 4
    /\ lines = << <<"x">>, <<" ", " ", " ", " ", "x">> >>

\* the index of the line of the text that holds position pos
LineAt(ls, pos) ==
    CHOOSE i \in 1..Len(ls) :
        /\ LineStart(ls, i) <= pos
        /\ pos <= LineStart(ls, i) + Len(ls[i])

\* start and end of the selection the editor has now
NowLo == IF cursor < anchor THEN cursor ELSE anchor
NowHi == IF cursor > anchor THEN cursor ELSE anchor

(***************************************************************************)
(* C21: after unindent, each selection boundary (start and end) is still   *)
(* on the line it was on before the command: subtracting the removed       *)
(* indentation never moves a boundary before the first character position  *)
(* of its own line, for single-line and multi-line selections alike.       *)
(***************************************************************************)
C21_BoundariesStayOnTheirLines ==
    (last_cmd.op = "unindent" /\ ~last_cmd.raised /\ last_cmd.fail = -1) =>
        /\ LineAt(lines, NowLo) = LineAt(last_cmd.before, Lo(last_cmd))
        /\ LineAt(lines, NowHi) = LineAt(last_cmd.before, Hi(last_cmd))

(***************************************************************************)
(* C30: after every indent, unindent or block-comment-toggle the selection *)
(* that is restored satisfies 0 <= start <= end <= length of the new text, *)
(* and its direction (cursor after the anchor, or cursor before the        *)
(* anchor) is the same as before the command.                              *)
(***************************************************************************)
C30_SelectionKeepsDirection ==
    (last_cmd.op \in {"indent", "unindent", "comment", "uncomment"}
        /\ ~last_cmd.raised /\ last_cmd.fail = -1) =>
        /\ 0 <= NowLo /\ NowLo <= NowHi /\ NowHi <= Len(Text(lines))
        /\ last_cmd.cur_pos > last_cmd.anc => cursor >= anchor
        /\ last_cmd.cur_pos < last_cmd.anc => cursor <= anchor
        /\ last_cmd.cur_pos = last_cmd.anc => cursor = anchor

\* the line after one application of a command's operation; S are the
\* lines the command works on
AppliedOnce(op, ls, i, S) ==
    CASE op = "indent" ->
             Reindented(ls[i], IF Width(ls[i]) % 4 = 0 THEN Width(ls[i]) + 4
                               ELSE LeastMultipleAbove(Width(ls[i])))
      [] op = "unindent" ->
             IF Width(ls[i]) = 0 THEN ls[i]
             ELSE Reindented(ls[i], GreatestMultipleBelow(Width(ls[i])))
      [] op = "comment" -> Commented(ls[i], MinLead(ls, S))
      [] op = "uncomment" -> Uncommented(ls[i])

(***************************************************************************)
(* C26: indent, unindent and block-comment-toggle modify only the lines    *)
(* from the line containing the selection start through the line           *)
(* containing the selection end, each exactly once; with no selection only *)
(* the line containing the cursor is modified; every other line and the    *)
(* number of lines are unchanged.                                          *)
(***************************************************************************)
C26_OnlySelectedLinesModified ==
    (last_cmd.op \in {"indent", "unindent", "comment", "uncomment"}
        /\ ~last_cmd.raised /\ last_cmd.fail = -1) =>
        /\ Len(lines) = Len(last_cmd.before)
        /\ \A i \in 1..Len(lines) :
              lines[i] =
                  IF LineAt(last_cmd.before, Lo(last_cmd)) <= i
                        /\ i <= LineAt(last_cmd.before, Hi(last_cmd))
                  THEN AppliedOnce(last_cmd.op, last_cmd.before, i,
                                   LineAt(last_cmd.before, Lo(last_cmd))
                                       .. LineAt(last_cmd.before, Hi(last_cmd)))
                  ELSE last_cmd.before[i]
        /\ last_cmd.cur_pos = last_cmd.anc =>
              \A i \in 1..Len(lines) :
                  i # LineAt(last_cmd.before, last_cmd.cur_pos) =>
                      lines[i] = last_cmd.before[i]

C26_Witness ==
    /\ last_cmd.op = "indent"
    /\ last_cmd.before = << <<"x">>, <<" ", " ", "x">>, <<"x">> >>
    /\ last_cmd.cur_pos = 3 /\ last_cmd.anc = 3
    /\ lines = << <<"x">>, <<" ", " ", " ", " ", "x">>, <<"x">> >>

IndentedThenUnindented ==
    {i \in Touched(last_cmd.before, last_cmd.cur_pos, last_cmd.anc) :
        i \in Touched(lines, cursor, anchor)}

(***************************************************************************)
(* C23: for a line whose leading-space count n is a multiple of 4, indent  *)
(* followed by unindent gives leading-space count n again; for n not a     *)
(* multiple of 4, indent gives the next multiple m of 4 above n and        *)
(* unindent on that result gives m - 4, the multiple of 4 below n, not n.  *)
(***************************************************************************)
C23_IndentUnindentRoundTrip ==
    [][(last_cmd.op = "indent" /\ last_cmd'.op = "unindent"
            /\ ~last_cmd.raised /\ ~last_cmd'.raised) =>
          \A i \in IndentedThenUnindented :
              IF Width(last_cmd.before[i]) % 4 = 0
              THEN /\ Width(lines[i]) = Width(last_cmd.before[i]) + 4
                   /\ Width(lines'[i]) = Width(last_cmd.before[i])
                   /\ RestOf(lines'[i]) = RestOf(last_cmd.before[i])
              ELSE /\ Width(lines[i]) = LeastMultipleAbove(Width(last_cmd.before[i]))
                   /\ Width(lines'[i]) = Width(lines[i]) - 4
                   /\ Width(lines'[i]) = GreatestMultipleBelow(Width(last_cmd.before[i]))
                   /\ Width(lines'[i]) # Width(last_cmd.before[i])
                   /\ RestOf(lines'[i]) = RestOf(last_cmd.before[i])]_vars

C23_Witness ==
    /\ last_cmd.op = "unindent"
    /\ last_cmd.undo_before = << << <<" ", "x">>, <<"\t", "x">> >> >>
    /\ last_cmd.before = << <<" ", " ", " ", " ", "x">>,
                            <<" ", " ", " ", " ", " ", " ", " ", " ", "x">> >>
    /\ lines = << <<"x">>, <<" ", " ", " ", " ", "x">> >>

\* the lines S all have the same leading whitespace
SameIndentation(ls, S) ==
    \A i \in S : \A j \in S :
        SubSeq(ls[i], 1, Lead(ls[i])) = SubSeq(ls[j], 1, Lead(ls[j]))

(***************************************************************************)
(* C24: for a block of affected lines that all have the same indentation   *)
(* and are commented by the first toggle, applying block-comment-toggle a  *)
(* second time, with the selection left as the first toggle adjusted it,   *)
(* restores the original text of every line exactly.                       *)
(***************************************************************************)
C24_CommentToggleRoundTrip ==
    [][(last_cmd.op = "comment" /\ ~last_cmd.raised
            /\ last_cmd'.op \in {"comment", "uncomment"} /\ last_cmd' # last_cmd
            /\ SameIndentation(last_cmd.before,
                               Touched(last_cmd.before, last_cmd.cur_pos, last_cmd.anc))) =>
          /\ last_cmd'.op = "uncomment"
          /\ Touched(lines, cursor, anchor)
                 = Touched(last_cmd.before, last_cmd.cur_pos, last_cmd.anc)
          /\ lines' = last_cmd.before]_vars

C24_Witness ==
    /\ last_cmd.op = "uncomment"
    /\ last_cmd.undo_before = << << <<" ", "#", "x">>, <<" ", "x">> >> >>
    /\ last_cmd.before = << <<" ", "#", " ", "#", "x">>, <<" ", "#", " ", "x">> >>
    /\ lines = << <<" ", "#", "x">>, <<" ", "x">> >>

(***************************************************************************)
(* C22: while an execution is inside its redirected scope, sys.stderr is   *)
(* replaced by the tab's interceptor in the same way as sys.stdout and     *)
(* sys.stdin, so that what the executed code writes to standard error is   *)
(* published as error events on the executing tab, and the previous error  *)
(* handle is restored when the execution ends.                             *)
(***************************************************************************)
C22_StderrRedirectedInScope ==
    IF stack = << >>
    THEN sys_stderr = OrigH
    ELSE (Top.kind # "none" /\ Top.pc = "run") =>
             (sys_stderr = Top.tab /\ err_handle[Top.tab] # NoneH)
(***************************************************************************)
(* C28: every evaluation in a tab gets the tab's one symbol table as its   *)
(* globals and its locals: an execution that calls the top-level function  *)
(* f while f and the top-level name a are bound in the tab's table does    *)
(* not fail, and an expression f() yields the value bound to a.            *)
(***************************************************************************)
CallScripts == {"f()", "a = 2\ndef f(): return a\nf()"}

CalledWithBoundNames ==
    /\ ret.outcome # "none" /\ ret.script \in CallScripts
    /\ ret.script = "f()" =>
           (ret.locals0["f"] = FunctionF /\ ret.locals0["a"] # Unbound)

C28_FunctionSeesTopLevelNames ==
    CalledWithBoundNames =>
        /\ ~ret.failed
        /\ ret.kind = "eval" =>
               ret.events[Len(ret.events)] =
                   Event("result", Str(ret.locals0["a"]), ret.tab)

(***************************************************************************)
(* C27: at most one thread at a time is inside the append section of the   *)
(* output widget, the lock is free whenever no thread is inside (so it was *)
(* released when an append finished or raised), the fragments of one       *)
(* append are never separated by those of another, and a thread waiting    *)
(* for the lock gets inside.                                               *)
(***************************************************************************)
Inside == {t \in Threads : thread_pc[t] \in Section}

NotInterleaved ==
    \A i \in 1..Len(document) :
        document[i].part = 2 =>
            /\ i > 1
            /\ document[i - 1] = [document[i] EXCEPT !.part = 1]

AppendsSerialized ==
    /\ Cardinality(Inside) <= 1
    /\ Inside = {} => write_lock = 0
    /\ \A t \in Inside : write_lock = t
    /\ NotInterleaved

C27_AppendsSerializedAndNeverStuck ==
    /\ []AppendsSerialized
    /\ \A t \in Threads : (thread_pc[t] = "waiting") ~> (thread_pc[t] \in Section)

\* an append raised after its first fragment while another thread waited;
\* that thread is now inside, with its own first fragment in
C27_Witness ==
    \E t \in Threads :
        /\ thread_pc[t] = "insert" /\ Len(pending[t]) = 1
        /\ out_ret.raised /\ out_ret.thread # t
        /\ Len(document) = 2 /\ document[1].by = out_ret.thread
        /\ document[1].n = 1 /\ document[2].n = 2

(***************************************************************************)
(* C29: for every text of a block and every previous block state the scan  *)
(* for multi-line strings comes to its end, and each match_multiline       *)
(* leaves the block state 0 or the in_state of its delimiter.              *)
(***************************************************************************)
C29_MultilineScanTerminates ==
    /\ <>(hl_pc = "done")
    /\ [](hl_pc \in {"loop", "next", "done"} => hl_state \in {0, hl_delim})

====
